---- MODULE Spec2Model ----
(***************************************************************************)
(* Model of the adaptive throttle of slayer_enterprise/testing/throttle.py *)
(* (IntelligentThrottle with its nested CircuitBreaker and the four        *)
(* BackoffCalculator strategies) and of the dispatch tasks of              *)
(* slayer_enterprise_enhanced.py that call it.                             *)
(*                                                                         *)
(* Time: time.time() is the variable clock, in whole seconds; the clock    *)
(* starts at 1 and time passes between calls, never inside one.            *)
(* Rates and delays are Python floats in the source; here they are exact   *)
(* rationals <<numerator, denominator>> in lowest terms.                   *)
(***************************************************************************)
EXTENDS Integers, Sequences, FiniteSets, TLC

\* ---------------------------------------------------------------- bounds
\* the clock stops advancing at MaxTime
MaxTime == 3

\* the last clock reading of a recovery run
MaxRecoverTime == 12

\* ------------------------------------------------------- exact rationals
RECURSIVE GCD(_, _)
GCD(a, b) == IF b = 0 THEN a ELSE GCD(b, a % b)

Abs(a) == IF a < 0 THEN -a ELSE a

\* the rational n/d (d > 0) in lowest terms
Rat(n, d) == LET g == GCD(Abs(n), d) IN IF n = 0 THEN <<0, 1>> ELSE <<n \div g, d \div g>>

R(i) == <<i, 1>>

RMul(x, y) == Rat(x[1] * y[1], x[2] * y[2])

\* x / y for y > 0
RDiv(x, y) == Rat(x[1] * y[2], x[2] * y[1])

RAdd(x, y) == Rat(x[1] * y[2] + y[1] * x[2], x[2] * y[2])

RSub(x, y) == Rat(x[1] * y[2] - y[1] * x[2], x[2] * y[2])

RLt(x, y) == x[1] * y[2] < y[1] * x[2]

RLe(x, y) == x[1] * y[2] <= y[1] * x[2]

\* Python's max(x, y) and min(x, y)
RMax(x, y) == IF RLt(x, y) THEN y ELSE x

RMin(x, y) == IF RLt(y, x) THEN y ELSE x

RECURSIVE RPow(_, _)
RPow(x, k) == IF k = 0 THEN R(1) ELSE RMul(x, RPow(x, k - 1))

\* a difference of two clock readings, as a rational number of seconds
Secs(ticks) == R(ticks)

\* statistics.mean of a non-empty sequence of integers
RECURSIVE SumSeq(_)
SumSeq(s) == IF s = <<>> THEN 0 ELSE Head(s) + SumSeq(Tail(s))

Mean(s) == Rat(SumSeq(s), Len(s))

\* list(d)[-k:]
LastN(s, k) == IF Len(s) <= k THEN s ELSE SubSeq(s, Len(s) - k + 1, Len(s))

\* deque(maxlen = m).append(x)
DequeAppend(s, x, m) == IF Len(s) >= m THEN Append(Tail(s), x) ELSE Append(s, x)

\* ------------------------------------------- configurations and inputs
\* ThrottleConfig with the durations and thresholds scaled down from the
\* defaults so that every timeout elapses within MaxTime.
\* emergency_stop_error_rate 5 is below the only non-zero error sample (10);
\* 50 is the default.
Config(strategy, min_rps, initial_rps, max_rps, estop) ==
    [ max_rps |-> max_rps, min_rps |-> min_rps, initial_rps |-> initial_rps,
      response_time_threshold |-> 5000,
      backoff_strategy |-> strategy,
      backoff_multiplier |-> R(2),
      backoff_max_delay |-> R(1),
      circuit_failure_threshold |-> 2,
      circuit_timeout |-> R(1),
      health_check_interval |-> R(1),
      health_check_window |-> 3,
      absolute_max_rps |-> max_rps + 1,
      emergency_stop_error_rate |-> R(estop),
      adaptation_sensitivity |-> <<3, 10>>,
      performance_target_p95 |-> 2000 ]

\* results a run records: <<response_time_ms, status_code, error_type>>, a
\* response (status, no error) or an exception (status 0 and the
\* exception's name), as make_request reports them; "None" is error_type None
ByStatus == { <<100, 200, "None">>, <<100, 404, "None">>, <<100, 500, "None">> }

ByLatency == { <<100, 200, "None">>, <<4500, 200, "None">>, <<6000, 200, "None">> }

ByError == { <<100, 200, "None">>, <<100, 0, "ConnectionResetError">>, <<100, 0, "TimeoutError">> }

\* a run: a configuration, the results its requests produce and the target
\* rates its caller asks for
Scenarios ==
    { [config |-> Config("exponential", 1, 2, 4, 5), results |-> ByStatus, targets |-> {0, 6}],
      [config |-> Config("adaptive", 1, 2, 4, 5), results |-> ByStatus, targets |-> {}],
      [config |-> [Config("linear", 1, 2, 4, 50) EXCEPT !.absolute_max_rps = 3],
       results |-> ByLatency, targets |-> {0, 2, 6}],
      [config |-> Config("adaptive", 1, 2, 4, 50), results |-> ByLatency, targets |-> {0, 6}],
      [config |-> Config("fibonacci", 0, 1, 2, 50), results |-> ByError, targets |-> {0}] }

\* the runs of the dispatch tasks: rates below 1 request per second, so that
\* the minimum interval spans several clock readings
LoadScenarios ==
    { [config |-> Config("exponential", 0, 1, 2, 50), results |-> ByStatus, targets |-> {}],
      [config |-> Config("linear", 0, 1, 2, 5), results |-> ByStatus, targets |-> {}] }

\* the concurrent make_request tasks of _execute_test_requests
NumTasks == 2

Tasks == 1..NumTasks

\* 'connection' in error_type.lower(), over the error names of ErrorTypes
\* ("None" stands for error_type = None)
is_connection_error(error_type) == error_type \in {"ConnectionResetError"}

VARIABLES
    clock,        \* time.time()
    throttle,     \* the IntelligentThrottle object
    inputs,       \* the results and target rates this run draws from
    pc,           \* where each make_request task is
    op,           \* the call made by the last step
    ret,          \* return value of the last should_make_request
    can_exec,     \* return value of the last circuit_breaker.can_execute
    stopped,      \* history: an emergency stop was triggered and not yet reset
    last_permit,  \* history: clock of the last permitted dispatch, 0 if none
    coordinator,  \* the DistributedCoordinator object
    test_coordinator, \* the TestCoordinator object
    handlers,     \* where the _handle_connection task of each connection is
    calls,        \* where each start_distributed_test / stop_test call is
    uuids,        \* number of test ids uuid.uuid4() has handed out
    monitor,      \* where the _heartbeat_monitor task is
    slo_monitor,  \* the SLOMonitor object
    generator,    \* where a generate_schedule generator is, and what it yielded
    engine        \* where execute_patterns and its _schedule_request tasks are

\* the coordinators and their tasks
cvars == <<coordinator, test_coordinator, handlers, calls, uuids, monitor>>

\* the SLO monitor, the schedule generator and the pattern engine
mvars == <<slo_monitor, generator, engine>>

vars == <<clock, throttle, inputs, pc, op, ret, can_exec, stopped, last_permit,
          coordinator, test_coordinator, handlers, calls, uuids, monitor,
          slo_monitor, generator, engine>>

\* ------------------------------------------------------ BackoffCalculator
\* FibonacciBackoffCalculator._get_fibonacci: cache [1, 1, 2, 3, 5, ...]
RECURSIVE get_fibonacci(_)
get_fibonacci(n) == IF n <= 1 THEN 1 ELSE get_fibonacci(n - 1) + get_fibonacci(n - 2)

Min(a, b) == IF b < a THEN b ELSE a

ExponentialDelay(self, attempt, base_delay) ==
    RMin(RMul(base_delay, RPow(self.config.backoff_multiplier, attempt)),
         self.config.backoff_max_delay)

\* LinearBackoffCalculator is built with the default increment 1.0
LinearDelay(self, attempt, base_delay) ==
    RMin(RAdd(base_delay, RMul(R(attempt), R(1))), self.config.backoff_max_delay)

FibonacciDelay(self, attempt, base_delay) ==
    RMin(RMul(base_delay, R(get_fibonacci(Min(attempt, 20)))),
         self.config.backoff_max_delay)

AdaptiveDelay(self, attempt, base_delay) ==
    IF Len(self.performance_history) < 5
    THEN RMul(base_delay, RPow(R(2), attempt))
    ELSE LET recent_metrics == LastN(self.performance_history, 5)
             avg_response_time ==
                 Mean([i \in 1..Len(recent_metrics) |-> recent_metrics[i].response_time_avg])
             avg_error_rate ==
                 Mean([i \in 1..Len(recent_metrics) |-> recent_metrics[i].error_rate])
             target == R(self.config.performance_target_p95)
             s1 == IF RLt(target, avg_response_time)
                   THEN RDiv(avg_response_time, target) ELSE R(1)
             stress_factor ==
                   IF RLt(R(1), avg_error_rate)
                   THEN RMul(s1, RAdd(R(1), RDiv(avg_error_rate, R(10)))) ELSE s1
         IN RMin(RMul(base_delay, RPow(stress_factor, attempt)),
                 self.config.backoff_max_delay)

\* self.backoff_calculator.calculate_delay(attempt, base_delay), in seconds
calculate_delay(self, attempt, base_delay) ==
    CASE self.config.backoff_strategy = "exponential" -> ExponentialDelay(self, attempt, base_delay)
      [] self.config.backoff_strategy = "linear" -> LinearDelay(self, attempt, base_delay)
      [] self.config.backoff_strategy = "fibonacci" -> FibonacciDelay(self, attempt, base_delay)
      [] self.config.backoff_strategy = "adaptive" -> AdaptiveDelay(self, attempt, base_delay)

ExponentialNewRps(self, current_rps, metrics) ==
    IF metrics.error_rate > 10
    THEN RMax(RDiv(current_rps, self.config.backoff_multiplier), R(1))
    ELSE IF metrics.response_time_p95 > 5000
         THEN RMax(RMul(current_rps, <<7, 10>>), R(1))
         ELSE current_rps

LinearNewRps(self, current_rps, metrics) ==
    IF metrics.error_rate > 10
    THEN RMax(RSub(current_rps, R(5)), R(1))
    ELSE IF metrics.response_time_p95 > 5000
         THEN RMax(RSub(current_rps, R(2)), R(1))
         ELSE current_rps

FibonacciNewRps(self, current_rps, metrics) ==
    IF metrics.error_rate > 10
    THEN RMax(RMul(current_rps, Rat(1, get_fibonacci(3))), R(1))
    ELSE current_rps

\* performance_score of AdaptiveBackoffCalculator.calculate_new_rps
performance_score(self, m) ==
    RAdd(RAdd(Rat(m.response_time_p95, self.config.performance_target_p95),
              Rat(m.error_rate, 100)),
         IF m.connection_errors > 0 THEN R(1) ELSE R(0))

\* AdaptiveBackoffCalculator.calculate_new_rps: the calculator's state after
\* the call (performance_history, optimal_rps_estimate) and the new rate
AdaptiveNewRps(self, current_rps, metrics) ==
    LET history == DequeAppend(self.performance_history, metrics, 100)
    IN IF Len(history) < 3
       THEN [rps |-> current_rps, performance_history |-> history,
             optimal_rps_estimate |-> self.optimal_rps_estimate]
       ELSE LET recent_metrics == LastN(history, 3)
                scores == [i \in 1..3 |-> performance_score(self, recent_metrics[i])]
                trend == RDiv(RSub(scores[3], scores[1]), R(3))
                sens == self.config.adaptation_sensitivity
                new_rps ==
                    IF RLt(<<1, 5>>, trend)
                    THEN RMul(current_rps, RSub(R(1), sens))
                    ELSE IF RLt(trend, <<-1, 5>>)
                         THEN RMul(current_rps, RAdd(R(1), RMul(sens, <<1, 2>>)))
                         ELSE IF RLt(scores[3], <<3, 2>>)
                              THEN RMul(current_rps, <<11, 10>>)
                              ELSE current_rps
                optimal == IF RLt(scores[3], R(1))
                           THEN RMax(self.optimal_rps_estimate, current_rps)
                           ELSE self.optimal_rps_estimate
                bounded == RMax(R(self.config.min_rps), RMin(new_rps, R(self.config.max_rps)))
            IN [rps |-> RMin(bounded, RMul(optimal, <<6, 5>>)),
                performance_history |-> history,
                optimal_rps_estimate |-> optimal]

\* self.backoff_calculator.calculate_new_rps(current_rps, metrics)
calculate_new_rps(self, current_rps, metrics) ==
    LET same(r) == [rps |-> r, performance_history |-> self.performance_history,
                    optimal_rps_estimate |-> self.optimal_rps_estimate]
    IN CASE self.config.backoff_strategy = "exponential" -> same(ExponentialNewRps(self, current_rps, metrics))
         [] self.config.backoff_strategy = "linear" -> same(LinearNewRps(self, current_rps, metrics))
         [] self.config.backoff_strategy = "fibonacci" -> same(FibonacciNewRps(self, current_rps, metrics))
         [] self.config.backoff_strategy = "adaptive" -> AdaptiveNewRps(self, current_rps, metrics)

\* --------------------------------------------------------- CircuitBreaker
None == <<>>

\* CircuitBreaker.__init__ as IntelligentThrottle.__init__ calls it:
\* success_threshold keeps its default 3
NewCircuitBreaker(failure_threshold, recovery_timeout) ==
    [ failure_threshold |-> failure_threshold,
      recovery_timeout |-> recovery_timeout,
      success_threshold |-> 3,
      state |-> "closed",
      failure_count |-> 0,
      success_count |-> 0,
      last_failure_time |-> 0 ]

cb_open(cb, now) ==
    [cb EXCEPT !.state = "open", !.last_failure_time = now, !.success_count = 0]

cb_close(cb) ==
    [cb EXCEPT !.state = "closed", !.failure_count = 0, !.success_count = 0]

cb_half_open(cb) ==
    [cb EXCEPT !.state = "half_open", !.success_count = 0]

\* record_success closing one success late
record_success_late(cb) ==
    IF cb.state = "half_open"
    THEN LET c1 == [cb EXCEPT !.success_count = cb.success_count + 1]
         IN IF c1.success_count > c1.success_threshold THEN cb_close(c1) ELSE c1
    ELSE [cb EXCEPT !.failure_count = 0]

record_success(cb) ==
    IF cb.state = "half_open"
    THEN LET c1 == [cb EXCEPT !.success_count = cb.success_count + 1]
         IN IF c1.success_count >= c1.success_threshold THEN cb_close(c1) ELSE c1
    ELSE [cb EXCEPT !.failure_count = 0]

\* record_failure opening one failure late
record_failure_late(cb, now) ==
    IF cb.state = "closed"
    THEN LET c1 == [cb EXCEPT !.failure_count = cb.failure_count + 1]
         IN IF c1.failure_count > c1.failure_threshold THEN cb_open(c1, now) ELSE c1
    ELSE IF cb.state = "half_open"
         THEN cb_open(cb, now)
         ELSE cb

record_failure(cb, now) ==
    IF cb.state = "closed"
    THEN LET c1 == [cb EXCEPT !.failure_count = cb.failure_count + 1]
         IN IF c1.failure_count >= c1.failure_threshold THEN cb_open(c1, now) ELSE c1
    ELSE IF cb.state = "half_open"
         THEN cb_open(cb, now)
         ELSE cb

\* can_execute that does not wait for recovery_timeout
can_execute_no_timeout(cb, now) ==
    IF cb.state = "closed"
    THEN [result |-> TRUE, cb |-> cb]
    ELSE IF cb.state = "open"
         THEN [result |-> TRUE, cb |-> cb_half_open(cb)]
         ELSE [result |-> TRUE, cb |-> cb]

\* can_execute that needs more than recovery_timeout
can_execute_strict(cb, now) ==
    IF cb.state = "closed"
    THEN [result |-> TRUE, cb |-> cb]
    ELSE IF cb.state = "open"
         THEN IF RLt(cb.recovery_timeout, Secs(now - cb.last_failure_time))
              THEN [result |-> TRUE, cb |-> cb_half_open(cb)]
              ELSE [result |-> FALSE, cb |-> cb]
         ELSE [result |-> TRUE, cb |-> cb]

\* can_execute(): the returned value and the breaker after the call
can_execute(cb, now) ==
    IF cb.state = "closed"
    THEN [result |-> TRUE, cb |-> cb]
    ELSE IF cb.state = "open"
         THEN IF RLe(cb.recovery_timeout, Secs(now - cb.last_failure_time))
              THEN [result |-> TRUE, cb |-> cb_half_open(cb)]
              ELSE [result |-> FALSE, cb |-> cb]
         ELSE [result |-> TRUE, cb |-> cb]

\* ---------------------------------------------------- IntelligentThrottle
\* IntelligentThrottle.__init__ at time now.  request_times and the
\* timestamp and current_rps fields of the collected metrics are written
\* but read by no decision of the throttle; they are left out.
NewThrottle(config, now) ==
    [ config |-> config,
      current_rps |-> R(config.initial_rps),
      target_rps |-> R(config.initial_rps),
      state |-> "normal",
      backoff_attempt |-> 0,
      last_backoff_time |-> 0,
      health_metrics_history |-> <<>>,
      last_health_check |-> now,
      circuit_breaker |-> NewCircuitBreaker(config.circuit_failure_threshold,
                                            config.circuit_timeout),
      performance_history |-> <<>>,
      optimal_rps_estimate |-> R(config.initial_rps),
      last_request_time |-> 0,
      emergency_stop_triggered |-> FALSE ]

\* the interval check that ends should_make_request with the rate not 0:
\* the returned tuple and the throttle after it
enforce_interval_late(self, now) ==
    LET target_interval == RDiv(R(1), self.current_rps)
        time_since_last == Secs(now - self.last_request_time)
    IN IF self.last_request_time > 0 /\ RLt(target_interval, time_since_last)
       THEN [ret |-> <<FALSE, RSub(target_interval, time_since_last)>>, self |-> self]
       ELSE [ret |-> <<TRUE, None>>, self |-> [self EXCEPT !.last_request_time = now]]

enforce_interval(self, now) ==
    LET target_interval == RDiv(R(1), self.current_rps)
        time_since_last == Secs(now - self.last_request_time)
    IN IF self.last_request_time > 0 /\ RLt(time_since_last, target_interval)
       THEN [ret |-> <<FALSE, RSub(target_interval, time_since_last)>>, self |-> self]
       ELSE [ret |-> <<TRUE, None>>, self |-> [self EXCEPT !.last_request_time = now]]

\* should_make_request without the emergency stop check
should_make_request_no_stop_check(self, now) ==
    LET ce == can_execute(self.circuit_breaker, now)
        s1 == [self EXCEPT !.circuit_breaker = ce.cb]
        backoff_delay == calculate_delay(s1, s1.backoff_attempt, R(1))
        s2 == IF s1.state = "backing_off"
                 /\ RLe(backoff_delay, Secs(now - s1.last_backoff_time))
              THEN [s1 EXCEPT !.state = "recovery", !.backoff_attempt = 0]
              ELSE s1
        out(ret_, self_) == [ret |-> ret_, self |-> self_, can_execute |-> ce.result]
    IN IF ~ce.result
       THEN out(<<FALSE, self.config.circuit_timeout>>, s1)
       ELSE IF s1.state = "circuit_open"
       THEN out(<<FALSE, self.config.circuit_timeout>>, s1)
       ELSE IF RLe(s2.current_rps, R(0))
       THEN out(<<FALSE, R(1)>>, s2)
       ELSE LET e == enforce_interval(s2, now) IN out(e.ret, e.self)

\* should_make_request moving the throttle to CIRCUIT_OPEN when the breaker
\* refuses the call
should_make_request_marks_open(self, now) ==
    LET ce == can_execute(self.circuit_breaker, now)
        s1 == [self EXCEPT !.circuit_breaker = ce.cb]
        backoff_delay == calculate_delay(s1, s1.backoff_attempt, R(1))
        s2 == IF s1.state = "backing_off"
                 /\ RLe(backoff_delay, Secs(now - s1.last_backoff_time))
              THEN [s1 EXCEPT !.state = "recovery", !.backoff_attempt = 0]
              ELSE s1
        out(ret_, self_) == [ret |-> ret_, self |-> self_, can_execute |-> ce.result]
    IN IF ~ce.result
       THEN out(<<FALSE, self.config.circuit_timeout>>, [s1 EXCEPT !.state = "circuit_open"])
       ELSE IF s1.emergency_stop_triggered
       THEN out(<<FALSE, None>>, s1)
       ELSE IF s1.state = "circuit_open"
       THEN out(<<FALSE, self.config.circuit_timeout>>, s1)
       ELSE IF RLe(s2.current_rps, R(0))
       THEN out(<<FALSE, R(1)>>, s2)
       ELSE LET e == enforce_interval(s2, now) IN out(e.ret, e.self)

\* should_make_request(): the returned tuple, the throttle after the call and
\* what circuit_breaker.can_execute() returned
should_make_request(self, now) ==
    LET ce == can_execute(self.circuit_breaker, now)
        s1 == [self EXCEPT !.circuit_breaker = ce.cb]
        backoff_delay == calculate_delay(s1, s1.backoff_attempt, R(1))
        s2 == IF s1.state = "backing_off"
                 /\ RLe(backoff_delay, Secs(now - s1.last_backoff_time))
              THEN [s1 EXCEPT !.state = "recovery", !.backoff_attempt = 0]
              ELSE s1
        out(ret_, self_) == [ret |-> ret_, self |-> self_, can_execute |-> ce.result]
    IN IF ~ce.result
       THEN out(<<FALSE, self.config.circuit_timeout>>, s1)
       ELSE IF s1.emergency_stop_triggered
       THEN out(<<FALSE, None>>, s1)
       ELSE IF s1.state = "circuit_open"
       THEN out(<<FALSE, self.config.circuit_timeout>>, s1)
       ELSE IF RLe(s2.current_rps, R(0))
       THEN out(<<FALSE, R(1)>>, s2)
       ELSE LET e == enforce_interval(s2, now) IN out(e.ret, e.self)

\* _collect_health_metrics taking a failed request for an error rate of 100 %
collect_health_metrics_percent(self, response_time_ms, status_code, error_type) ==
    LET metrics ==
          [ response_time_avg |-> response_time_ms,
            response_time_p95 |-> (response_time_ms * 12) \div 10,
            error_rate |-> IF status_code >= 400 THEN 100 ELSE 0,
            connection_errors |->
                IF error_type # "None" /\ is_connection_error(error_type) THEN 1 ELSE 0 ]
    IN [self EXCEPT !.health_metrics_history =
            DequeAppend(self.health_metrics_history, metrics, self.config.health_check_window)]

\* _collect_health_metrics: response_time_p95 = response_time_ms * 1.2 is
\* exact for the latencies recorded (multiples of 5); successful_requests
\* and failed_requests are read by no decision and left out
collect_health_metrics(self, response_time_ms, status_code, error_type) ==
    LET metrics ==
          [ response_time_avg |-> response_time_ms,
            response_time_p95 |-> (response_time_ms * 12) \div 10,
            error_rate |-> IF status_code >= 400 THEN 10 ELSE 0,
            connection_errors |->
                IF error_type # "None" /\ is_connection_error(error_type) THEN 1 ELSE 0 ]
    IN [self EXCEPT !.health_metrics_history =
            DequeAppend(self.health_metrics_history, metrics, self.config.health_check_window)]

should_trigger_backoff(self, response_time_ms, status_code, error_type) ==
    \/ response_time_ms > self.config.response_time_threshold
    \/ error_type # "None" /\ is_connection_error(error_type)
    \/ status_code >= 500

\* trigger_backoff halving without the min_rps floor
trigger_backoff_no_floor(self, now) ==
    IF self.state # "backing_off"
    THEN [self EXCEPT !.state = "backing_off",
                      !.backoff_attempt = self.backoff_attempt + 1,
                      !.last_backoff_time = now,
                      !.current_rps = RMul(self.current_rps, <<1, 2>>)]
    ELSE self

trigger_backoff(self, now) ==
    IF self.state # "backing_off"
    THEN [self EXCEPT !.state = "backing_off",
                      !.backoff_attempt = self.backoff_attempt + 1,
                      !.last_backoff_time = now,
                      !.current_rps = RMax(RMul(self.current_rps, <<1, 2>>),
                                           R(self.config.min_rps))]
    ELSE self

\* trigger_emergency_stop keeping the rate
trigger_emergency_stop_keeps_rate(self) ==
    [self EXCEPT !.emergency_stop_triggered = TRUE,
                 !.state = "emergency_stop"]

trigger_emergency_stop(self) ==
    [self EXCEPT !.emergency_stop_triggered = TRUE,
                 !.state = "emergency_stop",
                 !.current_rps = R(0)]

\* the recent snapshots _assess_server_health looks at
recent_metrics_of(self) == LastN(self.health_metrics_history, 5)

avg_error_rate_of(self) ==
    LET recent_metrics == recent_metrics_of(self)
    IN Mean([i \in 1..Len(recent_metrics) |-> recent_metrics[i].error_rate])

avg_response_time_of(self) ==
    LET recent_metrics == recent_metrics_of(self)
    IN Mean([i \in 1..Len(recent_metrics) |-> recent_metrics[i].response_time_avg])

\* _assess_server_health returning to NORMAL only at the full target_rps
assess_server_health_full_target(self) ==
    IF Len(self.health_metrics_history) < 3
    THEN self
    ELSE IF RLt(self.config.emergency_stop_error_rate, avg_error_rate_of(self))
    THEN trigger_emergency_stop(self)
    ELSE LET recent_metrics == recent_metrics_of(self)
             latest_metrics == recent_metrics[Len(recent_metrics)]
         IN IF self.state = "normal"
            THEN LET calc == calculate_new_rps(self, self.current_rps, latest_metrics)
                     n1 == RMax(R(self.config.min_rps), RMin(calc.rps, R(self.config.max_rps)))
                     new_rps == RMin(n1, R(self.config.absolute_max_rps))
                 IN [self EXCEPT !.performance_history = calc.performance_history,
                                 !.optimal_rps_estimate = calc.optimal_rps_estimate,
                                 !.current_rps = new_rps]
            ELSE IF self.state = "recovery"
                    /\ RLt(avg_error_rate_of(self), R(2))
                    /\ RLt(avg_response_time_of(self), R(self.config.performance_target_p95))
            THEN LET new_rps == RMin(RMul(self.current_rps, <<11, 10>>), self.target_rps)
                 IN [self EXCEPT !.current_rps = new_rps,
                                 !.state = IF RLe(self.target_rps, new_rps)
                                           THEN "normal" ELSE "recovery"]
            ELSE self

assess_server_health(self) ==
    IF Len(self.health_metrics_history) < 3
    THEN self
    ELSE IF RLt(self.config.emergency_stop_error_rate, avg_error_rate_of(self))
    THEN trigger_emergency_stop(self)
    ELSE LET recent_metrics == recent_metrics_of(self)
             latest_metrics == recent_metrics[Len(recent_metrics)]
         IN IF self.state = "normal"
            THEN LET calc == calculate_new_rps(self, self.current_rps, latest_metrics)
                     n1 == RMax(R(self.config.min_rps), RMin(calc.rps, R(self.config.max_rps)))
                     new_rps == RMin(n1, R(self.config.absolute_max_rps))
                 IN [self EXCEPT !.performance_history = calc.performance_history,
                                 !.optimal_rps_estimate = calc.optimal_rps_estimate,
                                 !.current_rps = new_rps]
            ELSE IF self.state = "recovery"
                    /\ RLt(avg_error_rate_of(self), R(2))
                    /\ RLt(avg_response_time_of(self), R(self.config.performance_target_p95))
            THEN LET new_rps == RMin(RMul(self.current_rps, <<11, 10>>), self.target_rps)
                 IN [self EXCEPT !.current_rps = new_rps,
                                 !.state = IF RLe(RMul(self.target_rps, <<9, 10>>), new_rps)
                                           THEN "normal" ELSE "recovery"]
            ELSE self

\* record_request_result assessing the health before the immediate triggers
record_request_result_assess_first(self, now, response_time_ms, status_code, error_type) ==
    LET s1 == [self EXCEPT !.circuit_breaker =
                  IF 200 <= status_code /\ status_code < 400
                  THEN record_success(self.circuit_breaker)
                  ELSE record_failure(self.circuit_breaker, now)]
        s2 == collect_health_metrics(s1, response_time_ms, status_code, error_type)
        s3 == IF RLe(self.config.health_check_interval, Secs(now - s2.last_health_check))
              THEN [assess_server_health(s2) EXCEPT !.last_health_check = now]
              ELSE s2
    IN IF should_trigger_backoff(s3, response_time_ms, status_code, error_type)
       THEN trigger_backoff(s3, now)
       ELSE s3

record_request_result(self, now, response_time_ms, status_code, error_type) ==
    LET s1 == [self EXCEPT !.circuit_breaker =
                  IF 200 <= status_code /\ status_code < 400
                  THEN record_success(self.circuit_breaker)
                  ELSE record_failure(self.circuit_breaker, now)]
        s2 == collect_health_metrics(s1, response_time_ms, status_code, error_type)
        s3 == IF should_trigger_backoff(s2, response_time_ms, status_code, error_type)
              THEN trigger_backoff(s2, now)
              ELSE s2
    IN IF RLe(self.config.health_check_interval, Secs(now - s3.last_health_check))
       THEN [assess_server_health(s3) EXCEPT !.last_health_check = now]
       ELSE s3

\* set_target_rps adopting the target as current rate in every state
set_target_rps_any_state(self, target_rps) ==
    LET t1 == RMax(R(self.config.min_rps), RMin(R(target_rps), R(self.config.max_rps)))
        t2 == RMin(t1, R(self.config.absolute_max_rps))
    IN [self EXCEPT !.target_rps = t2, !.current_rps = t2]

set_target_rps(self, target_rps) ==
    LET t1 == RMax(R(self.config.min_rps), RMin(R(target_rps), R(self.config.max_rps)))
        t2 == RMin(t1, R(self.config.absolute_max_rps))
    IN IF ~self.emergency_stop_triggered /\ self.state = "normal"
       THEN [self EXCEPT !.target_rps = t2, !.current_rps = t2]
       ELSE [self EXCEPT !.target_rps = t2]

\* reset_emergency_stop keeping the attempt counter
reset_emergency_stop_keeps_attempt(self) ==
    IF self.emergency_stop_triggered
    THEN [self EXCEPT !.emergency_stop_triggered = FALSE,
                      !.state = "recovery",
                      !.current_rps = R(self.config.min_rps)]
    ELSE self

reset_emergency_stop(self) ==
    IF self.emergency_stop_triggered
    THEN [self EXCEPT !.emergency_stop_triggered = FALSE,
                      !.state = "recovery",
                      !.current_rps = R(self.config.min_rps),
                      !.backoff_attempt = 0]
    ELSE self

\* ------------------------------------------------------- the coordinators
\* test ids uuid.uuid4() hands out in a run; the k-th id is k
MaxTests == 1

TestIds == 1..MaxTests

\* concurrent callers of start_distributed_test and stop_test
NumCallers == 1

Callers == 1..NumCallers

\* the connections of a run: the handshake message <<node_id, role>> each
\* one carries, in the order in which the server accepts them
ClusterScenarios ==
    { << <<"w1", "worker">>, <<"w2", "worker">> >>,
      << <<"o1", "observer">>, <<"w1", "worker">> >>,
      << <<"w1", "worker">>, <<"w1", "worker">> >> }

\* the key of the coordinator's cipher, and a key it does not hold
ClusterKey == "cluster key"

ForeignKey == "foreign key"

\* MessageSecurity.encrypt_message under `key`: the wire data of a message
encrypt_message(key, message) == <<key, message>>

\* what decrypt_message raises
DecryptionFailed == <<"ValueError">>

\* a decrypt_message that does not authenticate the data
decrypt_message_any_key(message_data) == message_data[2]

\* MessageSecurity.decrypt_message by the coordinator: the authenticated
\* decryption gives the message back only for data encrypted under its key
decrypt_message(message_data) ==
    IF message_data[1] = ClusterKey THEN message_data[2] ELSE DecryptionFailed

\* asyncio.wait_for(websocket.recv(), timeout=10.0) ran out
RecvTimeout == <<"TimeoutError">>

\* the handshake message of a node: <<"handshake", node_id, role>>
HandshakeMessage(handshake) == <<"handshake", handshake[1], handshake[2]>>

\* first messages that are no handshake: none in 10 s, a handshake under a
\* foreign key, a message of another type
BadFirstMessages ==
    { RecvTimeout,
      encrypt_message(ForeignKey, <<"handshake", "w1", "worker">>),
      encrypt_message(ClusterKey, <<"heartbeat", "w1", "worker">>) }

\* the messages a node sends after its handshake
NodeMessages == { <<"status_update", "running">>, <<"error">> }

\* the metrics reports a node pushes: request counts, the node's average
\* response time in ms and its current rate
MetricsReport(total, successful, avg, rps) ==
    [total_requests |-> total, successful_requests |-> successful,
     avg_response_time |-> avg, current_rps |-> rps]

MetricsReports == { MetricsReport(2, 1, 100, 1), MetricsReport(6, 6, 300, 3) }

\* what a node sends after its handshake in a cluster run: heartbeats,
\* metrics reports, an error report, a status update, and data under a
\* foreign key
ClusterWire ==
    { encrypt_message(ClusterKey, <<"heartbeat">>),
      encrypt_message(ClusterKey, <<"error">>),
      encrypt_message(ClusterKey, <<"status_update", "error">>),
      encrypt_message(ForeignKey, <<"metrics", MetricsReport(6, 6, 300, 3)>>) }
      \cup { encrypt_message(ClusterKey, <<"metrics", report>>) : report \in MetricsReports }

\* heartbeat_timeout of _heartbeat_monitor, seconds
heartbeat_timeout == 30

\* asyncio.sleep(10) between two passes of _heartbeat_monitor
MonitorInterval == 10

\* the clock of a cluster run is read every ClockStep seconds
ClockStep == 10

\* test_config['target_rps'] of the tests started
TotalRates == {0, 7}

\* a dict with no key
EmptyDict == [x \in {} |-> None]

\* d[k] = v
DictSet(d, k, v) == [x \in DOMAIN d \cup {k} |-> IF x = k THEN v ELSE d[x]]

\* del d[k]
DictDel(d, k) == [x \in DOMAIN d \ {k} |-> d[x]]

\* NodeInfo; address, port, capabilities and connection_time are read by no
\* decision and left out
NodeInfo(node_id, role, status, last_heartbeat) ==
    [node_id |-> node_id, role |-> role, status |-> status,
     last_heartbeat |-> last_heartbeat]

\* self.nodes is a dict in insertion order: the sequence of its values
HasNode(nodes, node_id) == \E i \in 1..Len(nodes) : nodes[i].node_id = node_id

\* self.nodes[node_info.node_id] = node_info: a known key keeps its place
StoreNode(nodes, node_info) ==
    IF HasNode(nodes, node_info.node_id)
    THEN [i \in 1..Len(nodes) |->
             IF nodes[i].node_id = node_info.node_id THEN node_info ELSE nodes[i]]
    ELSE Append(nodes, node_info)

\* self.nodes[node_id].status = status, under `if node_id in self.nodes`
SetStatus(nodes, node_id, status) ==
    [i \in 1..Len(nodes) |->
        IF nodes[i].node_id = node_id THEN [nodes[i] EXCEPT !.status = status]
        ELSE nodes[i]]

\* self.nodes[node_id].last_heartbeat = time.time(), under the same test
SetHeartbeat(nodes, node_id, now) ==
    [i \in 1..Len(nodes) |->
        IF nodes[i].node_id = node_id THEN [nodes[i] EXCEPT !.last_heartbeat = now]
        ELSE nodes[i]]

\* ClusterMetrics(): no report, no aggregate (timestamps are left out)
NewClusterMetrics == [node_metrics |-> EmptyDict, aggregated_metrics |-> EmptyDict]

NewDistributedCoordinator ==
    [nodes |-> <<>>, active_connections |-> EmptyDict, active_tests |-> EmptyDict,
     metrics |-> NewClusterMetrics]

\* the _heartbeat_monitor task between two passes: asleep until `wake`
\* (`registered` is history: the nodes a pass flagged while they had a
\* registration)
Sleeping(wake) ==
    [pc |-> "sleeping", wake |-> wake, disconnected_nodes |-> <<>>, i |-> 0,
     registered |-> {}]

\* the monitor of a coordinator that was not started
NoPass == Sleeping(0)

\* SLOMonitor(): slos in insertion order, metrics_history by SLO name
NewSLOMonitor == [slos |-> <<>>, violations |-> <<>>, metrics_history |-> EmptyDict]

\* no generate_schedule generator was created
NoGenerator == [pc |-> "none"]

\* no load test run yet
NoEngine == [pc |-> "none", tasks |-> <<>>]

MetricsIdle ==
    /\ slo_monitor = NewSLOMonitor
    /\ generator = NoGenerator
    /\ engine = NoEngine

NewTestCoordinator == [active_tests |-> EmptyDict]

\* a caller with no call in flight
NoCall == [pc |-> "idle", command |-> None, i |-> 0, sent |-> <<>>]

\* both coordinators as constructed, no connection accepted, no call made
CoordinatorsIdle(handshakes) ==
    /\ coordinator = NewDistributedCoordinator
    /\ test_coordinator = NewTestCoordinator
    /\ handlers = [c \in DOMAIN handshakes |-> <<"new">>]
    /\ calls = [k \in Callers |-> NoCall]
    /\ uuids = 0
    /\ monitor = NoPass

\* ----------------------------------------------------------- the actions
Start(scenarios) ==
    /\ clock = 1
    /\ \E sc \in scenarios :
          /\ throttle = NewThrottle(sc.config, 1)
          /\ inputs = [results |-> sc.results, targets |-> sc.targets]
    /\ pc = [t \in Tasks |-> <<"ready">>]
    /\ op = <<"init">>
    /\ ret = None
    /\ can_exec = None
    /\ stopped = FALSE
    /\ last_permit = 0
    /\ CoordinatorsIdle(<<>>)
    /\ MetricsIdle

Init == Start(Scenarios)

\* time passes
Tick ==
    /\ clock < MaxTime
    /\ clock' = clock + 1
    /\ op' = <<"tick">>
    /\ ret' = None
    /\ can_exec' = None
    /\ UNCHANGED <<throttle, inputs, pc, stopped, last_permit, cvars, mvars>>

\* a call of throttle.should_make_request()
CallShouldMakeRequest ==
    LET r == should_make_request(throttle, clock)
    IN /\ throttle' = r.self
       /\ op' = <<"should_make_request">>
       /\ ret' = r.ret
       /\ can_exec' = <<r.can_execute>>
       /\ last_permit' = IF r.ret[1] THEN clock ELSE last_permit
       /\ UNCHANGED <<clock, inputs, stopped, cvars, mvars>>

\* a call of throttle.record_request_result(in[1], in[2], in[3])
CallRecordRequestResult(in) ==
    LET after == record_request_result(throttle, clock, in[1], in[2], in[3])
    IN /\ throttle' = after
       /\ op' = <<"record_request_result", in[1], in[2], in[3]>>
       /\ ret' = None
       /\ can_exec' = None
       /\ stopped' = (stopped \/ after.emergency_stop_triggered)
       /\ UNCHANGED <<clock, inputs, last_permit, cvars, mvars>>

ShouldMakeRequest ==
    /\ CallShouldMakeRequest
    /\ UNCHANGED pc

RecordRequestResult ==
    /\ \E in \in inputs.results : CallRecordRequestResult(in)
    /\ UNCHANGED pc

SetTargetRps ==
    \E r \in inputs.targets :
       /\ throttle' = set_target_rps(throttle, r)
       /\ op' = <<"set_target_rps", r>>
       /\ ret' = None
       /\ can_exec' = None
       /\ UNCHANGED <<clock, inputs, pc, stopped, last_permit, cvars, mvars>>

ResetEmergencyStop ==
    /\ throttle' = reset_emergency_stop(throttle)
    /\ op' = <<"reset_emergency_stop">>
    /\ ret' = None
    /\ can_exec' = None
    /\ stopped' = FALSE
    /\ UNCHANGED <<clock, inputs, pc, last_permit, cvars, mvars>>

\* the throttle under any sequence of calls
Next ==
    \/ Tick
    \/ ShouldMakeRequest
    \/ RecordRequestResult
    \/ SetTargetRps
    \/ ResetEmergencyStop

Spec == Init /\ [][Next]_vars

\* runs whose emergency_stop_error_rate is 10 or more: the smallest such
\* value, and the default 50
NoStopScenarios ==
    { [config |-> Config("exponential", 1, 2, 4, 10), results |-> ByStatus, targets |-> {6}],
      [config |-> Config("fibonacci", 1, 2, 4, 50), results |-> ByStatus, targets |-> {0}] }

InitNoStop == Start(NoStopScenarios)

SpecNoStop == InitNoStop /\ [][Next]_vars

\* ------------------------------------------ the dispatch tasks
\* make_request up to its first await: the throttle is asked; a refused task
\* sleeps for the returned delay, if any, and returns; a permitted one
\* starts its request.  should_make_request has no await: the call is atomic.
MakeRequestAsk(t) ==
    /\ pc[t] = <<"ready">>
    /\ CallShouldMakeRequest
    /\ pc' = [pc EXCEPT ![t] =
                IF ret'[1] THEN <<"requesting", clock>>
                ELSE IF ret'[2] # None /\ ret'[2] # R(0)
                     THEN <<"sleeping", RAdd(R(clock), ret'[2])>>
                     ELSE <<"ready">>]

\* asyncio.sleep(delay) is over; the task returns without a request
MakeRequestSkip(t) ==
    /\ pc[t][1] = "sleeping"
    /\ RLe(pc[t][2], R(clock))
    /\ pc' = [pc EXCEPT ![t] = <<"ready">>]
    /\ op' = <<"skip">>
    /\ ret' = None
    /\ can_exec' = None
    /\ UNCHANGED <<clock, throttle, inputs, stopped, last_permit, cvars, mvars>>

\* the request of a permitted task completes or raises; the result is
\* recorded and the task returns
MakeRequestDone(t) ==
    /\ pc[t][1] = "requesting"
    /\ \E in \in inputs.results : CallRecordRequestResult(in)
    /\ pc' = [pc EXCEPT ![t] = <<"ready">>]

InitLoad == Start(LoadScenarios)

NextLoad ==
    \/ Tick
    \/ \E t \in Tasks : MakeRequestAsk(t)
    \/ \E t \in Tasks : MakeRequestSkip(t)
    \/ \E t \in Tasks : MakeRequestDone(t)

SpecLoad == InitLoad /\ [][NextLoad]_vars

\* ------------------------------------------------- recovery under health
\* results whose status is below 400 and whose latency keeps the window
\* mean below performance_target_p95
HealthyResults == { <<100, 200, "None">>, <<1500, 200, "None">> }

\* RECOVERY at min_rps as should_make_request enters it: one triggering
\* result at clock 1 halved initial_rps down to min_rps, and the call at
\* clock 2 found the back-off delay of one second elapsed
AfterBackoff(config, in) ==
    should_make_request(
        record_request_result(NewThrottle(config, 1), 1, in[1], in[2], in[3]), 2).self

\* RECOVERY at min_rps as reset_emergency_stop enters it: the assessment at
\* clock 2 found a mean error rate of 20/3 > 5 and forced the emergency stop
AfterReset(config) ==
    LET s1 == record_request_result(NewThrottle(config, 1), 1, 100, 200, "None")
        s2 == record_request_result(s1, 1, 100, 404, "None")
        s3 == record_request_result(s2, 2, 100, 404, "None")
    IN reset_emergency_stop(s3)

RecoveryStarts ==
    { AfterBackoff(Config("exponential", 1, 2, 4, 5), <<100, 0, "ConnectionResetError">>),
      AfterBackoff(Config("linear", 1, 2, 4, 50), <<6000, 200, "None">>),
      AfterBackoff(Config("fibonacci", 1, 2, 4, 50), <<100, 500, "None">>),
      AfterReset(Config("exponential", 1, 2, 4, 5)) }

InitRecover ==
    /\ clock = 2
    /\ throttle \in RecoveryStarts
    /\ inputs = [results |-> HealthyResults, targets |-> {}]
    /\ pc = [t \in Tasks |-> <<"ready">>]
    /\ op = <<"init">>
    /\ ret = None
    /\ can_exec = None
    /\ stopped = FALSE
    /\ last_permit = 0
    /\ CoordinatorsIdle(<<>>)
    /\ MetricsIdle

\* the next periodic assessment is due: health_check_interval has elapsed
AssessmentDue ==
    RLe(throttle.config.health_check_interval, Secs(clock - throttle.last_health_check))

\* time passes, but not past a due assessment: results keep being recorded
\* and each interval sees its assessment
RecoverTick ==
    /\ ~AssessmentDue
    /\ clock < MaxRecoverTime
    /\ clock' = clock + 1
    /\ op' = <<"tick">>
    /\ ret' = None
    /\ can_exec' = None
    /\ UNCHANGED <<throttle, inputs, pc, stopped, last_permit, cvars, mvars>>

NextRecover ==
    \/ RecoverTick
    \/ RecordRequestResult
    \/ ShouldMakeRequest

\* a result is recorded while an assessment is due.  In a due state the
\* last step was no record_request_result (a recording at a due reading
\* runs the assessment, and only RecoverTick makes one due again), so a step
\* of NextRecover is a <<RecordingDue>>_op step exactly when it is a
\* RecordRequestResult step taken while AssessmentDue holds.
RecordingDue ==
    /\ AssessmentDue
    /\ \E in \in inputs.results : op' = <<"record_request_result", in[1], in[2], in[3]>>

\* every later result is healthy (inputs.results); the clock keeps running
\* and a result is recorded in every health_check_interval, so that
\* assessments keep occurring
SpecRecover ==
    /\ InitRecover
    /\ [][NextRecover]_vars
    /\ WF_vars(RecoverTick)
    /\ WF_op(RecordingDue)

\* ------------------------------------------------ DistributedCoordinator
\* _perform_handshake up to its test of the message type: the data
\* <<node_id, role>> of the handshake that was received, None when recv
\* timed out, the data does not decrypt or the message is of another type
handshake_data(first) ==
    IF first = RecvTimeout
    THEN None
    ELSE LET message == decrypt_message(first)
         IN IF message = DecryptionFailed \/ message[1] # "handshake"
            THEN None
            ELSE <<message[2], message[3]>>

\* _perform_handshake storing a NodeInfo whose last_heartbeat is not set yet
perform_handshake_unset_heartbeat(self, message, now) ==
    [self EXCEPT !.nodes = StoreNode(self.nodes,
                                     NodeInfo(message[1], message[2], "ready", 0))]

\* _perform_handshake up to the await that sends the reply: the NodeInfo of
\* the handshake <<node_id, role>> is stored with status READY
perform_handshake(self, message, now) ==
    [self EXCEPT !.nodes = StoreNode(self.nodes,
                                     NodeInfo(message[1], message[2], "ready", now))]

\* self.active_connections[node_id] = websocket
register_connection(self, node_id, websocket) ==
    [self EXCEPT !.active_connections = DictSet(self.active_connections, node_id, websocket)]

\* ------------------------------------------------------- ClusterMetrics
\* sum(metrics.get(field, 0) for metrics in self.node_metrics.values())
RECURSIVE SumField(_, _)
SumField(node_metrics, field) ==
    IF DOMAIN node_metrics = {}
    THEN 0
    ELSE LET node_id == CHOOSE node_id \in DOMAIN node_metrics : TRUE
         IN node_metrics[node_id][field] + SumField(DictDel(node_metrics, node_id), field)

\* sum(weighted_response_times): avg_response_time * total_requests of the
\* reports with total_requests > 0
RECURSIVE SumWeighted(_)
SumWeighted(node_metrics) ==
    IF DOMAIN node_metrics = {}
    THEN 0
    ELSE LET node_id == CHOOSE node_id \in DOMAIN node_metrics : TRUE
             metrics == node_metrics[node_id]
             weight == metrics.total_requests
         IN (IF weight > 0 THEN metrics.avg_response_time * weight ELSE 0)
               + SumWeighted(DictDel(node_metrics, node_id))

\* total_weight: the total_requests of the reports with total_requests > 0
RECURSIVE TotalWeight(_)
TotalWeight(node_metrics) ==
    IF DOMAIN node_metrics = {}
    THEN 0
    ELSE LET node_id == CHOOSE node_id \in DOMAIN node_metrics : TRUE
             weight == node_metrics[node_id].total_requests
         IN (IF weight > 0 THEN weight ELSE 0) + TotalWeight(DictDel(node_metrics, node_id))

\* ClusterMetrics._recalculate_aggregates
recalculate_aggregates(self) ==
    IF DOMAIN self.node_metrics = {}
    THEN self
    ELSE LET total_requests == SumField(self.node_metrics, "total_requests")
             total_success == SumField(self.node_metrics, "successful_requests")
             total_weight == TotalWeight(self.node_metrics)
         IN [self EXCEPT !.aggregated_metrics =
               [total_requests |-> total_requests,
                successful_requests |-> total_success,
                error_rate |->
                   IF total_requests > 0
                   THEN RMul(RDiv(R(total_requests - total_success), R(total_requests)),
                             R(100))
                   ELSE R(0),
                avg_response_time |->
                   IF total_weight > 0
                   THEN RDiv(R(SumWeighted(self.node_metrics)), R(total_weight))
                   ELSE R(0),
                current_rps |-> SumField(self.node_metrics, "current_rps"),
                active_nodes |-> Cardinality(DOMAIN self.node_metrics)]]

\* update_node_metrics adding the counts of a report to the node's earlier one
update_node_metrics_accumulate(self, node_id, metrics) ==
    LET merged == IF node_id \in DOMAIN self.node_metrics
                  THEN [metrics EXCEPT
                          !.total_requests = @ + self.node_metrics[node_id].total_requests,
                          !.successful_requests =
                              @ + self.node_metrics[node_id].successful_requests]
                  ELSE metrics
    IN recalculate_aggregates([self EXCEPT !.node_metrics = DictSet(@, node_id, merged)])

\* ClusterMetrics.update_node_metrics
update_node_metrics(self, node_id, metrics) ==
    recalculate_aggregates([self EXCEPT !.node_metrics = DictSet(@, node_id, metrics)])

\* _handle_node_message for a message that decrypts: <<"heartbeat">>,
\* <<"heartbeat", status>>, <<"status_update", status>>, <<"metrics", report>>
\* or <<"error">>
handle_node_message(self, node_id, message, now) ==
    LET nodes == SetHeartbeat(self.nodes, node_id, now)
    IN CASE message[1] = "heartbeat" /\ Len(message) = 2 ->
              [self EXCEPT !.nodes = SetStatus(nodes, node_id, message[2])]
         [] message[1] = "status_update" ->
              [self EXCEPT !.nodes = SetStatus(nodes, node_id, message[2])]
         [] message[1] = "error" ->
              [self EXCEPT !.nodes = SetStatus(nodes, node_id, "error")]
         [] message[1] = "metrics" ->
              [self EXCEPT !.nodes = nodes,
                           !.metrics = update_node_metrics(self.metrics, node_id, message[2])]
         [] OTHER -> [self EXCEPT !.nodes = nodes]

\* _handle_node_message noting the heartbeat before it decrypts the data
receive_node_message_heartbeat_first(self, node_id, message_data, now) ==
    LET message == decrypt_message(message_data)
        noted == [self EXCEPT !.nodes = SetHeartbeat(self.nodes, node_id, now)]
    IN IF message = DecryptionFailed
       THEN noted
       ELSE handle_node_message(self, node_id, message, now)

\* _handle_node_message: data that does not decrypt raises inside the try
\* before anything is read or written
receive_node_message(self, node_id, message_data, now) ==
    LET message == decrypt_message(message_data)
    IN IF message = DecryptionFailed
       THEN self
       ELSE handle_node_message(self, node_id, message, now)

handle_node_disconnect(self, node_id) ==
    [self EXCEPT !.active_connections = DictDel(self.active_connections, node_id),
                 !.nodes = SetStatus(self.nodes, node_id, "disconnected")]

\* the filter without its test of active_connections
is_available_unconnected(self, node_info) ==
    /\ node_info.role = "worker"
    /\ node_info.status = "ready"

\* the filter of the available_nodes comprehension
is_available(self, node_info) ==
    /\ node_info.role = "worker"
    /\ node_info.status = "ready"
    /\ node_info.node_id \in DOMAIN self.active_connections

available_nodes(self) ==
    LET selected == SelectSeq(self.nodes, LAMBDA node_info : is_available(self, node_info))
    IN [i \in 1..Len(selected) |-> selected[i].node_id]

\* TestCommand; target_url, duration and pattern are read by no decision
TestCommand(test_id, assigned_nodes, total_rps) ==
    [command_id |-> test_id, assigned_nodes |-> assigned_nodes, total_rps |-> total_rps]

\* node_rps with the remainder given to no node
node_rps_no_remainder(test_command, i) ==
    test_command.total_rps \div Len(test_command.assigned_nodes)

\* node_rps of the i-th assigned node (enumerate index i - 1)
node_rps(test_command, i) ==
    LET rps_per_node == test_command.total_rps \div Len(test_command.assigned_nodes)
        remaining_rps == test_command.total_rps % Len(test_command.assigned_nodes)
    IN IF i = 1 THEN rps_per_node + remaining_rps ELSE rps_per_node

\* the start_test command built for the i-th assigned node, and what became
\* of it: "delivered", "failed" (send raised) or "no_connection" (the lookup
\* self.active_connections[node_id] raised KeyError)
start_command(test_command, i, outcome) ==
    [to |-> test_command.assigned_nodes[i], command |-> "start_test",
     test_id |-> test_command.command_id, target_rps |-> node_rps(test_command, i),
     outcome |-> outcome]

stop_command(test_command, i, outcome) ==
    [to |-> test_command.assigned_nodes[i], command |-> "stop_test",
     test_id |-> test_command.command_id, outcome |-> outcome]

\* the send loop of start_distributed_test from the i-th node up to its next
\* await: a node that is no longer connected fails inside the try without
\* an await; the loop stops at the first node with a connection (its send is
\* awaited) or at the end of the list
RECURSIVE send_start_commands(_, _, _, _)
send_start_commands(self, test_command, i, sent) ==
    IF i > Len(test_command.assigned_nodes)
       \/ test_command.assigned_nodes[i] \in DOMAIN self.active_connections
    THEN [i |-> i, sent |-> sent]
    ELSE send_start_commands(self, test_command, i + 1,
                             Append(sent, start_command(test_command, i, "no_connection")))

\* the send loop of stop_test from the i-th node up to its next await: a
\* node without a connection is skipped
RECURSIVE send_stop_commands(_, _, _, _)
send_stop_commands(self, test_command, i, sent) ==
    IF i > Len(test_command.assigned_nodes)
       \/ test_command.assigned_nodes[i] \in DOMAIN self.active_connections
    THEN [i |-> i, sent |-> sent]
    ELSE send_stop_commands(self, test_command, i + 1, sent)

\* start_distributed_test storing the TestCommand before it looks at the
\* available nodes
start_distributed_test_store_first(self, test_id, total_rps) ==
    LET assigned == available_nodes(self)
        test_command == TestCommand(test_id, assigned, total_rps)
    IN [self |-> [self EXCEPT !.active_tests =
                     DictSet(self.active_tests, test_id, test_command)],
        test_command |-> IF assigned = <<>> THEN None ELSE test_command,
        raised |-> assigned = <<>>]

\* start_distributed_test up to its send loop: without an available node it
\* raises ValueError, otherwise the TestCommand is stored in active_tests
start_distributed_test(self, test_id, total_rps) ==
    LET assigned == available_nodes(self)
        test_command == TestCommand(test_id, assigned, total_rps)
    IN IF assigned = <<>>
       THEN [self |-> self, test_command |-> None, raised |-> TRUE]
       ELSE [self |-> [self EXCEPT !.active_tests =
                          DictSet(self.active_tests, test_id, test_command)],
             test_command |-> test_command, raised |-> FALSE]

\* what a call hands back: "returned" with its value or "raised" with the
\* exception, and the commands the call issued
Outcome(outcome, value, sent) == [outcome |-> outcome, value |-> value, sent |-> sent]

\* stop_test keeping the TestCommand when a send of its loop failed
finish_stop_test_keep_on_failure(self, test_id, sent) ==
    IF \E j \in DOMAIN sent : sent[j].outcome = "failed"
    THEN [self |-> self, ret |-> Outcome("returned", None, sent)]
    ELSE IF test_id \in DOMAIN self.active_tests
         THEN [self |-> [self EXCEPT !.active_tests = DictDel(self.active_tests, test_id)],
               ret |-> Outcome("returned", None, sent)]
         ELSE [self |-> self, ret |-> Outcome("raised", "KeyError", sent)]

\* stop_test after its send loop: del self.active_tests[test_id]
finish_stop_test(self, test_id, sent) ==
    IF test_id \in DOMAIN self.active_tests
    THEN [self |-> [self EXCEPT !.active_tests = DictDel(self.active_tests, test_id)],
          ret |-> Outcome("returned", None, sent)]
    ELSE [self |-> self, ret |-> Outcome("raised", "KeyError", sent)]

\* ---------------------------------------------------- _heartbeat_monitor
\* the nodes a pass at `now` flags, in the order of self.nodes
RECURSIVE timed_out(_, _)
timed_out(nodes, now) ==
    IF nodes = <<>>
    THEN <<>>
    ELSE LET node_info == Head(nodes)
             flagged == /\ now - node_info.last_heartbeat > heartbeat_timeout
                        /\ node_info.status # "disconnected"
         IN (IF flagged THEN <<node_info.node_id>> ELSE <<>>) \o timed_out(Tail(nodes), now)

\* the first loop of a pass: node_info.status = NodeStatus.DISCONNECTED for
\* the flagged nodes
flag_timed_out(self, now) ==
    [self EXCEPT !.nodes =
        [j \in 1..Len(self.nodes) |->
            IF /\ now - self.nodes[j].last_heartbeat > heartbeat_timeout
               /\ self.nodes[j].status # "disconnected"
            THEN [self.nodes[j] EXCEPT !.status = "disconnected"]
            ELSE self.nodes[j]]]

\* the clean-up loop of a pass from the i-th flagged node up to its next
\* await: a node without a registration is passed over; the loop stops at
\* the first registered one (its close is awaited) or at the end
RECURSIVE next_to_close(_, _, _)
next_to_close(self, disconnected_nodes, i) ==
    IF i > Len(disconnected_nodes) \/ disconnected_nodes[i] \in DOMAIN self.active_connections
    THEN i
    ELSE next_to_close(self, disconnected_nodes, i + 1)

\* the monitor after its loop reached position i at `now`: awaiting the
\* close of the i-th flagged node, or asleep for MonitorInterval
monitor_at(disconnected_nodes, i, now, registered) ==
    IF i > Len(disconnected_nodes)
    THEN Sleeping(now + MonitorInterval)
    ELSE [pc |-> "closing", wake |-> now, disconnected_nodes |-> disconnected_nodes,
          i |-> i, registered |-> registered]

\* ------------------------------------------------------- TestCoordinator
tc_start_test(self, test_id) ==
    [self EXCEPT !.active_tests = DictSet(self.active_tests, test_id, [status |-> "running"])]

tc_stop_test(self, test_id) ==
    IF test_id \in DOMAIN self.active_tests
    THEN [self EXCEPT !.active_tests = DictSet(self.active_tests, test_id, [status |-> "stopped"])]
    ELSE self

\* ------------------------------------------ the coordinator's tasks
\* a coordinator step leaves the throttle and its tasks alone
ThrottleUntouched ==
    UNCHANGED <<clock, throttle, inputs, pc, can_exec, stopped, last_permit, mvars>>

\* connections are numbered in the order of their first messages: c is the
\* next one to be heard of
NextAccepted(c) ==
    /\ handlers[c] = <<"new">>
    /\ \A b \in DOMAIN handlers : b < c => handlers[b] # <<"new">>

\* _handle_connection: what arrives first on connection c is a handshake;
\* the node is stored and the reply is being sent
PerformHandshake(c, first) ==
    /\ NextAccepted(c)
    /\ handshake_data(first) # None
    /\ coordinator' = perform_handshake(coordinator, handshake_data(first), clock)
    /\ handlers' = [handlers EXCEPT ![c] = <<"handshaking", handshake_data(first)[1]>>]
    /\ op' = <<"perform_handshake", first>>
    /\ ret' = None
    /\ UNCHANGED <<test_coordinator, calls, uuids>>
    /\ UNCHANGED monitor
    /\ ThrottleUntouched

\* the first message is no handshake, does not decrypt or does not come in
\* 10 s: the connection is closed and _perform_handshake returns None
RejectHandshake(c, first) ==
    /\ NextAccepted(c)
    /\ handshake_data(first) = None
    /\ handlers' = [handlers EXCEPT ![c] = <<"closed">>]
    /\ op' = <<"reject_handshake", first>>
    /\ ret' = None
    /\ UNCHANGED <<coordinator, test_coordinator, calls, uuids>>
    /\ UNCHANGED monitor
    /\ ThrottleUntouched

\* the send of the handshake reply is over: the connection is registered
\* and the message loop entered, or the send raised and the connection is
\* closed with node_id = None
HandshakeReplied(c, ok) ==
    /\ handlers[c][1] = "handshaking"
    /\ IF ok
       THEN /\ coordinator' = register_connection(coordinator, handlers[c][2], c)
            /\ handlers' = [handlers EXCEPT ![c] = <<"serving", handlers[c][2]>>]
       ELSE /\ coordinator' = coordinator
            /\ handlers' = [handlers EXCEPT ![c] = <<"closed">>]
    /\ op' = <<"handshake_replied">>
    /\ ret' = None
    /\ UNCHANGED <<test_coordinator, calls, uuids>>
    /\ UNCHANGED monitor
    /\ ThrottleUntouched

\* a message of the node of connection c is handled
HandleNodeMessage(c, message) ==
    /\ handlers[c][1] = "serving"
    /\ coordinator' = handle_node_message(coordinator, handlers[c][2], message, clock)
    /\ op' = <<"handle_node_message">>
    /\ ret' = None
    /\ UNCHANGED <<test_coordinator, handlers, calls, uuids>>
    /\ UNCHANGED monitor
    /\ ThrottleUntouched

\* connection c is closed: the message loop ends and the finally clause
\* runs _handle_node_disconnect
ConnectionClosed(c) ==
    /\ handlers[c][1] = "serving"
    /\ coordinator' = handle_node_disconnect(coordinator, handlers[c][2])
    /\ handlers' = [handlers EXCEPT ![c] = <<"closed">>]
    /\ op' = <<"connection_closed">>
    /\ ret' = None
    /\ UNCHANGED <<test_coordinator, calls, uuids>>
    /\ UNCHANGED monitor
    /\ ThrottleUntouched

\* start_distributed_test(test_config) by caller k, up to its first await:
\* without an available node it raises; otherwise the TestCommand is stored
\* and the command for the first node is being sent
StartDistributedTest(k, total_rps) ==
    /\ calls[k].pc = "idle"
    /\ uuids < MaxTests
    /\ uuids' = uuids + 1
    /\ op' = <<"start_distributed_test", k, total_rps>>
    /\ LET started == start_distributed_test(coordinator, uuids + 1, total_rps)
       IN /\ coordinator' = started.self
          /\ IF started.raised
             THEN /\ ret' = Outcome("raised", "ValueError", <<>>)
                  /\ UNCHANGED calls
             ELSE /\ LET loop == send_start_commands(started.self, started.test_command,
                                                     1, <<>>)
                     IN calls' = [calls EXCEPT ![k] =
                                     [pc |-> "start_sending",
                                      command |-> started.test_command,
                                      i |-> loop.i, sent |-> loop.sent]]
                  /\ ret' = None
    /\ UNCHANGED <<test_coordinator, handlers>>
    /\ UNCHANGED monitor
    /\ ThrottleUntouched

\* the send awaited by caller k's start_distributed_test is over (delivered,
\* or it raised and the failure is logged); the loop goes on to its next
\* await or the call returns the test id
StartCommandSent(k, ok) ==
    /\ calls[k].pc = "start_sending"
    /\ op' = <<"start_command_sent", k, ok>>
    /\ LET test_command == calls[k].command
           sent == Append(calls[k].sent,
                          start_command(test_command, calls[k].i,
                                        IF ok THEN "delivered" ELSE "failed"))
           loop == send_start_commands(coordinator, test_command, calls[k].i + 1, sent)
       IN IF loop.i > Len(test_command.assigned_nodes)
          THEN /\ calls' = [calls EXCEPT ![k] = NoCall]
               /\ ret' = Outcome("returned", test_command.command_id, loop.sent)
          ELSE /\ calls' = [calls EXCEPT ![k] = [@ EXCEPT !.i = loop.i, !.sent = loop.sent]]
               /\ ret' = None
    /\ UNCHANGED <<coordinator, test_coordinator, handlers, uuids>>
    /\ UNCHANGED monitor
    /\ ThrottleUntouched

\* stop_test(test_id) by caller k, up to its first await: an unknown id is
\* rejected; otherwise the stop command for the first assigned node that
\* has a connection is being sent, or, with none connected, the TestCommand
\* is deleted and the call returns
StopTest(k, test_id) ==
    /\ calls[k].pc = "idle"
    /\ op' = <<"stop_test", k, test_id>>
    /\ IF test_id \notin DOMAIN coordinator.active_tests
       THEN /\ ret' = Outcome("raised", "ValueError", <<>>)
            /\ UNCHANGED <<coordinator, calls>>
       ELSE LET test_command == coordinator.active_tests[test_id]
                loop == send_stop_commands(coordinator, test_command, 1, <<>>)
                done == finish_stop_test(coordinator, test_id, loop.sent)
            IN IF loop.i > Len(test_command.assigned_nodes)
               THEN /\ coordinator' = done.self
                    /\ ret' = done.ret
                    /\ UNCHANGED calls
               ELSE /\ calls' = [calls EXCEPT ![k] =
                                    [pc |-> "stop_sending", command |-> test_command,
                                     i |-> loop.i, sent |-> loop.sent]]
                    /\ ret' = None
                    /\ UNCHANGED coordinator
    /\ UNCHANGED <<test_coordinator, handlers, uuids>>
    /\ UNCHANGED monitor
    /\ ThrottleUntouched

\* the send awaited by caller k's stop_test is over (delivered, or it raised
\* and the failure is logged); the loop goes on to its next await, or the
\* TestCommand is deleted and the call returns
StopCommandSent(k, ok) ==
    /\ calls[k].pc = "stop_sending"
    /\ op' = <<"stop_command_sent", k, ok>>
    /\ LET test_command == calls[k].command
           sent == Append(calls[k].sent,
                          stop_command(test_command, calls[k].i,
                                       IF ok THEN "delivered" ELSE "failed"))
           loop == send_stop_commands(coordinator, test_command, calls[k].i + 1, sent)
           done == finish_stop_test(coordinator, test_command.command_id, loop.sent)
       IN IF loop.i > Len(test_command.assigned_nodes)
          THEN /\ coordinator' = done.self
               /\ ret' = done.ret
               /\ calls' = [calls EXCEPT ![k] = NoCall]
          ELSE /\ calls' = [calls EXCEPT ![k] = [@ EXCEPT !.i = loop.i, !.sent = loop.sent]]
               /\ ret' = None
               /\ UNCHANGED coordinator
    /\ UNCHANGED <<test_coordinator, handlers, uuids>>
    /\ UNCHANGED monitor
    /\ ThrottleUntouched

\* TestCoordinator.start_test(test_config): no await, the call is atomic
TestCoordinatorStartTest ==
    /\ uuids < MaxTests
    /\ uuids' = uuids + 1
    /\ test_coordinator' = tc_start_test(test_coordinator, uuids + 1)
    /\ op' = <<"TestCoordinator.start_test">>
    /\ ret' = Outcome("returned", uuids + 1, <<>>)
    /\ UNCHANGED <<coordinator, handlers, calls>>
    /\ UNCHANGED monitor
    /\ ThrottleUntouched

\* TestCoordinator.stop_test(test_id): it has no return and no raise
TestCoordinatorStopTest(test_id) ==
    /\ test_coordinator' = tc_stop_test(test_coordinator, test_id)
    /\ op' = <<"TestCoordinator.stop_test", test_id>>
    /\ ret' = Outcome("returned", None, <<>>)
    /\ UNCHANGED <<coordinator, handlers, calls, uuids>>
    /\ UNCHANGED monitor
    /\ ThrottleUntouched

\* both coordinators as LoadTester and a master node construct them
InitCoordinator ==
    /\ clock = 1
    /\ throttle = NewThrottle(Config("exponential", 1, 2, 4, 5), 1)
    /\ \E handshakes \in ClusterScenarios :
          inputs = [results |-> {}, targets |-> {}, handshakes |-> handshakes]
    /\ pc = [t \in Tasks |-> <<"ready">>]
    /\ op = <<"init">>
    /\ ret = None
    /\ can_exec = None
    /\ stopped = FALSE
    /\ last_permit = 0
    /\ CoordinatorsIdle(inputs.handshakes)
    /\ MetricsIdle

\* the connections of the run
Conns == DOMAIN handlers

\* what may arrive first on connection c: the handshake of its node or a
\* first message that is none
FirstMessages(c) ==
    {encrypt_message(ClusterKey, HandshakeMessage(inputs.handshakes[c]))}
        \cup BadFirstMessages

\* the coordinators under any connections, node messages and calls
NextCoordinator ==
    \/ \E c \in Conns : \E first \in FirstMessages(c) : PerformHandshake(c, first)
    \/ \E c \in Conns : \E first \in FirstMessages(c) : RejectHandshake(c, first)
    \/ \E c \in Conns, ok \in BOOLEAN : HandshakeReplied(c, ok)
    \/ \E c \in Conns, message \in NodeMessages : HandleNodeMessage(c, message)
    \/ \E c \in Conns : ConnectionClosed(c)
    \/ \E k \in Callers, total_rps \in TotalRates : StartDistributedTest(k, total_rps)
    \/ \E k \in Callers, ok \in BOOLEAN : StartCommandSent(k, ok)
    \/ \E k \in Callers, test_id \in TestIds : StopTest(k, test_id)
    \/ \E k \in Callers, ok \in BOOLEAN : StopCommandSent(k, ok)
    \/ TestCoordinatorStartTest
    \/ \E test_id \in TestIds : TestCoordinatorStopTest(test_id)

SpecCoordinator == InitCoordinator /\ [][NextCoordinator]_vars

\* ------------------------------------------- the cluster over time
\* clock readings of a cluster run after the first
MaxTicks == 5

\* the wire data `message_data` of the node of connection c is handled
NodeMessageReceived(c, message_data) ==
    /\ handlers[c][1] = "serving"
    /\ coordinator' = receive_node_message(coordinator, handlers[c][2], message_data, clock)
    /\ op' = <<"handle_node_message", handlers[c][2], message_data>>
    /\ ret' = None
    /\ UNCHANGED <<test_coordinator, handlers, calls, uuids, monitor>>
    /\ ThrottleUntouched

\* a pass of _heartbeat_monitor up to its first await: the nodes whose last
\* heartbeat is more than heartbeat_timeout old are flagged; the close of
\* the first registered one is awaited, or the monitor sleeps
HeartbeatMonitorPass ==
    /\ monitor.pc = "sleeping"
    /\ clock >= monitor.wake
    /\ LET disconnected_nodes == timed_out(coordinator.nodes, clock)
           flagged == flag_timed_out(coordinator, clock)
       IN /\ coordinator' = flagged
          /\ monitor' = monitor_at(disconnected_nodes,
                                   next_to_close(flagged, disconnected_nodes, 1), clock,
                                   { node_id \in DOMAIN coordinator.active_connections :
                                       \E j \in DOMAIN disconnected_nodes :
                                          disconnected_nodes[j] = node_id })
    /\ op' = <<"heartbeat_monitor">>
    /\ ret' = None
    /\ UNCHANGED <<test_coordinator, handlers, calls, uuids>>
    /\ ThrottleUntouched

\* the close awaited by the monitor is over (an exception of close is
\* swallowed): del self.active_connections[node_id] removes the
\* registration and the loop goes on, or, the registration being gone since
\* the test before the await, raises KeyError, which ends the pass
MonitorClosed ==
    /\ monitor.pc = "closing"
    /\ LET node_id == monitor.disconnected_nodes[monitor.i]
       IN IF node_id \in DOMAIN coordinator.active_connections
          THEN LET deleted == [coordinator EXCEPT !.active_connections = DictDel(@, node_id)]
               IN /\ coordinator' = deleted
                  /\ monitor' = monitor_at(monitor.disconnected_nodes,
                                           next_to_close(deleted, monitor.disconnected_nodes,
                                                         monitor.i + 1),
                                           clock, monitor.registered)
                  /\ ret' = None
          ELSE /\ coordinator' = coordinator
               /\ monitor' = Sleeping(clock + MonitorInterval)
               /\ ret' = Outcome("raised", "KeyError", <<>>)
    /\ op' = <<"monitor_closed">>
    /\ UNCHANGED <<test_coordinator, handlers, calls, uuids>>
    /\ ThrottleUntouched

\* ClockStep seconds pass; a pass of the monitor that is due comes first
TickCluster ==
    /\ clock < MaxTicks * ClockStep
    /\ ~(monitor.pc = "sleeping" /\ clock >= monitor.wake)
    /\ clock' = clock + ClockStep
    /\ op' = <<"tick">>
    /\ ret' = None
    /\ UNCHANGED <<throttle, inputs, pc, can_exec, stopped, last_permit, cvars, mvars>>

\* a started coordinator at clock 0: the monitor is about to make its
\* first pass
InitCluster ==
    /\ clock = 0
    /\ throttle = NewThrottle(Config("exponential", 1, 2, 4, 5), 1)
    /\ \E handshakes \in ClusterScenarios :
          inputs = [results |-> {}, targets |-> {}, handshakes |-> handshakes]
    /\ pc = [t \in Tasks |-> <<"ready">>]
    /\ op = <<"init">>
    /\ ret = None
    /\ can_exec = None
    /\ stopped = FALSE
    /\ last_permit = 0
    /\ coordinator = NewDistributedCoordinator
    /\ test_coordinator = NewTestCoordinator
    /\ handlers = [c \in DOMAIN inputs.handshakes |-> <<"new">>]
    /\ calls = [k \in Callers |-> NoCall]
    /\ uuids = 0
    /\ monitor = Sleeping(0)
    /\ MetricsIdle

\* connections, node messages, closes, the monitor and the clock
NextCluster ==
    \/ \E c \in Conns : \E first \in FirstMessages(c) : PerformHandshake(c, first)
    \/ \E c \in Conns : \E first \in FirstMessages(c) : RejectHandshake(c, first)
    \/ \E c \in Conns, ok \in BOOLEAN : HandshakeReplied(c, ok)
    \/ \E c \in Conns, message_data \in ClusterWire : NodeMessageReceived(c, message_data)
    \/ \E c \in Conns : ConnectionClosed(c)
    \/ HeartbeatMonitorPass
    \/ MonitorClosed
    \/ TickCluster

SpecCluster == InitCluster /\ [][NextCluster]_vars

\* ------------------------------------------------------------ SLOMonitor
\* SLO(name, metric_name, threshold, operator, window_seconds)
SLO(name, metric_name, threshold, operator, window_seconds) ==
    [name |-> name, metric_name |-> metric_name, threshold |-> threshold,
     operator |-> operator, window_seconds |-> window_seconds]

\* the operators of an SLO, and one that _check_threshold does not know
Operators == {"lt", "le", "gt", "ge", "eq", "ne"}

\* performance_target_p95 in ms and min_rps of the throttle configuration
performance_target_p95 == 500

min_rps == 2

\* the SLOs of create_standard_slos on response_time_p95 and current_rps,
\* the first under any operator
SLOs ==
    { SLO("response_time_p95", "response_time_p95", performance_target_p95, operator, 60) :
         operator \in Operators }
       \cup { SLO("min_rps", "current_rps", min_rps, "ge", 10) }

\* the RequestMetrics of a check, as far as the SLOs above read them
RequestMetrics(timestamp, p95, current_rps) ==
    [timestamp |-> timestamp, response_time_p95 |-> p95, current_rps |-> current_rps]

\* the readings of a check: a fast target at a high rate, a slow one at a
\* low rate (p95 in ms, rate in requests per second)
Readings == { <<400, 3>>, <<600, 1>> }

\* a ValueError raised inside the try of check_slos
SLOValueError == <<"ValueError">>

\* the metric names _get_metric_value knows among those read here, and the
\* operators _check_threshold knows: any other raises ValueError
KnownMetrics == {"response_time_p95", "current_rps"}

KnownOperators == {"lt", "le", "gt", "ge", "eq"}

\* _get_metric_value
get_metric_value(metrics, metric_name) ==
    CASE metric_name = "response_time_p95" -> metrics.response_time_p95
      [] metric_name = "current_rps" -> metrics.current_rps
      [] OTHER -> SLOValueError

\* |x| of a rational
RAbs(x) == <<Abs(x[1]), x[2]>>

\* _check_threshold on the window average `value`
check_threshold(value, threshold, operator) ==
    CASE operator = "lt" -> RLt(value, R(threshold))
      [] operator = "le" -> RLe(value, R(threshold))
      [] operator = "gt" -> RLt(R(threshold), value)
      [] operator = "ge" -> RLe(R(threshold), value)
      [] operator = "eq" -> RLt(RAbs(RSub(value, R(threshold))), <<1, 1000>>)
      [] OTHER -> SLOValueError

\* _calculate_severity: float('inf') is a ratio above every bound
calculate_severity(value, threshold, operator) ==
    LET infinite == IF operator \in {"lt", "le"} THEN ~RLt(R(0), value) ELSE threshold <= 0
        ratio == IF infinite THEN R(2)
                 ELSE IF operator \in {"lt", "le"} THEN RDiv(R(threshold), value)
                 ELSE RDiv(value, R(threshold))
    IN IF RLe(R(2), ratio) THEN "critical"
       ELSE IF RLe(<<3, 2>>, ratio) THEN "high"
       ELSE IF RLe(<<6, 5>>, ratio) THEN "medium"
       ELSE "low"

\* deque(maxlen=10000)
HistoryMaxlen == 10000

\* deque.append: the oldest point is dropped from a full deque
deque_append(history, point) ==
    IF Len(history) >= HistoryMaxlen THEN Append(Tail(history), point)
    ELSE Append(history, point)

\* self.metrics_history[slo_name] of the defaultdict
history_of(self, slo_name) ==
    IF slo_name \in DOMAIN self.metrics_history THEN self.metrics_history[slo_name]
    ELSE <<>>

\* window_data with every point of the history, whatever its age
window_data_unfiltered(history, current_time, window_seconds) == history

\* window_data: the points no older than window_seconds
window_data(history, current_time, window_seconds) ==
    SelectSeq(history, LAMBDA point : current_time - point.timestamp <= window_seconds)

\* sum(point['value'] for point in window_data) / len(window_data)
window_average(window) ==
    RDiv(R(SumSeq([j \in 1..Len(window) |-> window[j].value])), R(Len(window)))

HasSLO(slos, name) == \E i \in 1..Len(slos) : slos[i].name = name

\* add_slo: self.slos[slo.name] = slo, a known name keeps its place
add_slo(self, slo) ==
    [self EXCEPT !.slos =
        IF HasSLO(self.slos, slo.name)
        THEN [i \in 1..Len(self.slos) |->
                 IF self.slos[i].name = slo.name THEN slo ELSE self.slos[i]]
        ELSE Append(self.slos, slo)]

\* the body of the loop of check_slos for one SLO: the monitor after it and
\* the violations it adds to those returned
check_slo(self, slo, current_metrics) ==
    LET current_time == current_metrics.timestamp
        metric_value == get_metric_value(current_metrics, slo.metric_name)
        recorded == [self EXCEPT !.metrics_history =
                        DictSet(@, slo.name,
                                deque_append(history_of(self, slo.name),
                                             [timestamp |-> current_time,
                                              value |-> metric_value]))]
        window == window_data(recorded.metrics_history[slo.name], current_time,
                              slo.window_seconds)
        avg_value == window_average(window)
        is_violation == check_threshold(avg_value, slo.threshold, slo.operator)
        violation == [slo_name |-> slo.name, metric_name |-> slo.metric_name,
                      actual_value |-> avg_value, threshold |-> slo.threshold,
                      operator |-> slo.operator, window_seconds |-> slo.window_seconds,
                      timestamp |-> current_time,
                      severity |-> calculate_severity(avg_value, slo.threshold,
                                                      slo.operator)]
    IN IF slo.metric_name \notin KnownMetrics
       THEN [self |-> self, violations |-> <<>>]
       ELSE IF Len(window) < 2
       THEN [self |-> recorded, violations |-> <<>>]
       ELSE IF slo.operator \notin KnownOperators \/ ~is_violation
       THEN [self |-> recorded, violations |-> <<>>]
       ELSE [self |-> [recorded EXCEPT !.violations = Append(@, violation)],
             violations |-> <<violation>>]

\* check_slos from the i-th SLO on, `violations` found so far
RECURSIVE check_slos_from(_, _, _, _)
check_slos_from(self, i, current_metrics, violations) ==
    IF i > Len(self.slos)
    THEN [self |-> self, violations |-> violations]
    ELSE LET checked == check_slo(self, self.slos[i], current_metrics)
         IN check_slos_from(checked.self, i + 1, current_metrics,
                            violations \o checked.violations)

\* check_slos: the monitor after the check and the violations returned
check_slos(self, current_metrics) == check_slos_from(self, 1, current_metrics, <<>>)

\* points kept per SLO in a run, and clock readings after the first
MaxSamples == 2

MaxSLOTicks == 2

\* the clock of an SLO run is read every SLOClockStep seconds
SLOClockStep == 30

SLOUntouched ==
    UNCHANGED <<throttle, inputs, pc, can_exec, stopped, last_permit, cvars, generator,
                engine>>

AddSLO(slo) ==
    /\ slo_monitor' = add_slo(slo_monitor, slo)
    /\ op' = <<"add_slo", slo>>
    /\ ret' = None
    /\ UNCHANGED clock
    /\ SLOUntouched

CheckSLOs(p95, current_rps) ==
    /\ \A slo_name \in DOMAIN slo_monitor.metrics_history :
          Len(slo_monitor.metrics_history[slo_name]) < MaxSamples
    /\ LET checked == check_slos(slo_monitor, RequestMetrics(clock, p95, current_rps))
       IN /\ slo_monitor' = checked.self
          /\ ret' = Outcome("returned", checked.violations, <<>>)
    /\ op' = <<"check_slos", RequestMetrics(clock, p95, current_rps)>>
    /\ UNCHANGED clock
    /\ SLOUntouched

TickSLO ==
    /\ clock < MaxSLOTicks * SLOClockStep
    /\ clock' = clock + SLOClockStep
    /\ op' = <<"tick">>
    /\ ret' = None
    /\ UNCHANGED slo_monitor
    /\ SLOUntouched

\* a new SLOMonitor at clock 0
InitSLO ==
    /\ clock = 0
    /\ throttle = NewThrottle(Config("exponential", 1, 2, 4, 5), 1)
    /\ inputs = [results |-> {}, targets |-> {}, handshakes |-> <<>>]
    /\ pc = [t \in Tasks |-> <<"ready">>]
    /\ op = <<"init">>
    /\ ret = None
    /\ can_exec = None
    /\ stopped = FALSE
    /\ last_permit = 0
    /\ CoordinatorsIdle(<<>>)
    /\ MetricsIdle

NextSLO ==
    \/ \E slo \in SLOs : AddSLO(slo)
    \/ \E reading \in Readings : CheckSLOs(reading[1], reading[2])
    \/ TickSLO

SpecSLO == InitSLO /\ [][NextSLO]_vars

\* ----------------------------------------------------- traffic generators
\* an Optional[int] field of RequestPattern: not given, or given as v
Unset == <<>>

Given(v) == <<v>>

\* `value or default` on an Optional[int]: None and 0 are both falsy
python_or(value, default) ==
    IF value = Unset \/ value[1] = 0 THEN default ELSE value[1]

\* RequestPattern(pattern_type, duration_seconds, target_rps,
\* ramp_start_rps, ramp_end_rps); the other optional fields keep their
\* default None
RequestPattern(pattern_type, duration_seconds, target_rps, ramp_start_rps, ramp_end_rps) ==
    [pattern_type |-> pattern_type, duration_seconds |-> duration_seconds,
     target_rps |-> target_rps, ramp_start_rps |-> ramp_start_rps,
     ramp_end_rps |-> ramp_end_rps,
     burst_interval_seconds |-> Unset, burst_multiplier |-> Unset,
     wave_amplitude |-> Unset, wave_period_seconds |-> Unset,
     user_session_duration |-> Unset, think_time_range |-> Unset,
     user_arrival_rate |-> Unset]

\* the largest rate and the longest duration of a pattern, the dispatches
\* followed of a ramp, and the readings of time.time() when a schedule starts
MaxRate == 3

MaxDuration == 3

MaxRampYields == 3

\* the dispatches followed of a schedule whose time stands still
MaxStuckYields == 3

StartTimes == {0, 7}

OptionalRates == {Unset} \cup { Given(rate) : rate \in 0..MaxRate }

ConstantPatterns ==
    { RequestPattern("constant", duration_seconds, target_rps, Unset, Unset) :
         duration_seconds \in 0..MaxDuration, target_rps \in 0..MaxRate }

RampPatterns ==
    { RequestPattern(pattern_type, duration_seconds, target_rps, ramp_start_rps, ramp_end_rps) :
         pattern_type \in {"ramp_up", "ramp_down"}, duration_seconds \in 0..MaxDuration,
         target_rps \in 0..MaxRate, ramp_start_rps \in OptionalRates,
         ramp_end_rps \in OptionalRates }

\* TrafficPatternEngine.generators: the generator of a pattern type
generator_of(pattern_type) ==
    CASE pattern_type = "constant" -> "ConstantTrafficGenerator"
      [] pattern_type \in {"ramp_up", "ramp_down"} -> "RampTrafficGenerator"
      [] pattern_type = "burst" -> "BurstTrafficGenerator"
      [] pattern_type = "wave" -> "WaveTrafficGenerator"
      [] pattern_type = "realistic_user" -> "RealisticUserTrafficGenerator"

\* the frame of generate_schedule(pattern) before its first __anext__;
\* `iterations` keeps every turn of its loop
NewGenerator(pattern) ==
    [pc |-> "created", kind |-> generator_of(pattern.pattern_type), pattern |-> pattern,
     start_time |-> R(0), end_time |-> R(0), current_time |-> R(0), request_id |-> 0,
     request_interval |-> R(1), iterations |-> <<>>, next_burst_time |-> R(0),
     active_sessions |-> <<>>, session_counter |-> 0, last_user_arrival |-> R(0),
     cursor |-> 0, sessions_to_remove |-> {}]

\* the frame after the lines before the loop: start_time = time.time()
generator_started(g, now) ==
    [g EXCEPT !.start_time = R(now),
              !.end_time = R(now + g.pattern.duration_seconds),
              !.current_time = R(now),
              !.request_id = 0]

\* the interval of a constant schedule with every rate taken for 0
constant_interval_one(pattern) == R(1)

\* 1.0 / pattern.target_rps if pattern.target_rps > 0 else 1.0
constant_interval(pattern) ==
    IF pattern.target_rps > 0 THEN RDiv(R(1), R(pattern.target_rps)) ELSE R(1)

\* ConstantTrafficGenerator: the loop from its test to the next yield or
\* to the end of the schedule
constant_loop(g) ==
    IF RLt(g.current_time, g.end_time)
    THEN [g EXCEPT !.pc = "suspended",
                   !.request_interval = constant_interval(g.pattern),
                   !.iterations = Append(@, [time |-> g.current_time,
                                             request_id |-> g.request_id,
                                             dispatched |-> TRUE])]
    ELSE [g EXCEPT !.pc = "done"]

\* start_rps and end_rps of RampTrafficGenerator
ramp_start(pattern) == python_or(pattern.ramp_start_rps, 0)

ramp_end(pattern) == python_or(pattern.ramp_end_rps, pattern.target_rps)

\* the rate of the linear ramp from start_rps to end_rps at current_time
ramp_rps(g, start_rps, end_rps) ==
    LET progress == RDiv(RSub(g.current_time, g.start_time), R(g.pattern.duration_seconds))
    IN RAdd(R(start_rps), RMul(R(end_rps - start_rps), progress))

\* RampTrafficGenerator: the loop from its test to the next yield or to the
\* end of the schedule, 0.1 s at a time while the rate is not positive
RECURSIVE ramp_loop(_)
ramp_loop(g) ==
    IF RLt(g.current_time, g.end_time)
    THEN LET current_rps == ramp_rps(g, ramp_start(g.pattern), ramp_end(g.pattern))
         IN IF RLe(current_rps, R(0))
            THEN ramp_loop([g EXCEPT !.current_time = RAdd(@, <<1, 10>>),
                                     !.iterations = Append(@, [time |-> g.current_time,
                                                               request_id |-> g.request_id,
                                                               current_rps |-> current_rps,
                                                               dispatched |-> FALSE])])
            ELSE [g EXCEPT !.pc = "suspended",
                           !.request_interval = RDiv(R(1), current_rps),
                           !.iterations = Append(@, [time |-> g.current_time,
                                                     request_id |-> g.request_id,
                                                     current_rps |-> current_rps,
                                                     dispatched |-> TRUE])]
    ELSE [g EXCEPT !.pc = "done"]

\* floor(x) and x / y for y # 0
RFloor(x) == x[1] \div x[2]

RQuot(x, y) == IF y[1] < 0 THEN Rat((0 - x[1]) * y[2], x[2] * (0 - y[1])) ELSE RDiv(x, y)

\* x % y of Python floats: the result has the sign of y
python_mod(x, y) == RSub(x, RMul(y, R(RFloor(RQuot(x, y)))))

\* pattern.burst_interval_seconds or 30.0
burst_interval(pattern) == python_or(pattern.burst_interval_seconds, 30)

\* pattern.burst_multiplier or 3.0
burst_multiplier(pattern) == python_or(pattern.burst_multiplier, 3)

\* the 5-second burst duration
burst_duration == 5

\* is_burst at current_time
is_burst(g) ==
    LET time_since_burst == python_mod(RSub(g.current_time, g.next_burst_time),
                                       R(burst_interval(g.pattern)))
    IN RLt(time_since_burst, R(burst_duration))

\* BurstTrafficGenerator: the loop from its test to the next yield or to
\* the end of the schedule
burst_loop(g) ==
    IF RLt(g.current_time, g.end_time)
    THEN LET base_rps == g.pattern.target_rps
             current_rps == IF is_burst(g)
                            THEN base_rps * burst_multiplier(g.pattern)
                            ELSE base_rps
         IN [g EXCEPT !.pc = "suspended",
                      !.request_interval = IF current_rps > 0 THEN Rat(1, current_rps)
                                           ELSE R(1),
                      !.iterations = Append(@, [time |-> g.current_time,
                                                request_id |-> g.request_id,
                                                is_burst |-> is_burst(g),
                                                current_rps |-> R(current_rps),
                                                dispatched |-> TRUE])]
    ELSE [g EXCEPT !.pc = "done"]

\* the nearest integer to x
RRound(x) == RFloor(RAdd(x, <<1, 2>>))

\* x to the millisecond, the resolution at which a wave schedule is followed
milliseconds(x) == Rat(RRound(RMul(x, R(1000))), 1000)

\* math.sin(2 * math.pi * turns) at the nearest whole degree, by Bhaskara's
\* rational approximation 4 x (180 - x) / (40500 - x (180 - x)) of the sine
\* of x degrees on [0, 180]; it is exact where the sine is 0, 1/2 or 1 and
\* within 0.01 of it elsewhere
sin_2pi(turns) ==
    LET degrees == RRound(RMul(RSub(turns, R(RFloor(turns))), R(360)))
        x == IF degrees <= 180 THEN degrees ELSE degrees - 180
        arch == Rat(4 * x * (180 - x), 40500 - x * (180 - x))
    IN IF degrees <= 180 THEN arch ELSE RSub(R(0), arch)

\* pattern.wave_amplitude or (base_rps * 0.5)
wave_amplitude(pattern) ==
    IF pattern.wave_amplitude = Unset \/ pattern.wave_amplitude[1] = 0
    THEN Rat(pattern.target_rps, 2)
    ELSE R(pattern.wave_amplitude[1])

\* pattern.wave_period_seconds or 60.0
wave_period(pattern) == python_or(pattern.wave_period_seconds, 60)

\* WaveTrafficGenerator: the loop from its test to the next yield or to the
\* end of the schedule
wave_loop(g) ==
    IF RLt(g.current_time, g.end_time)
    THEN LET time_offset == RSub(g.current_time, g.start_time)
             wave_factor == sin_2pi(RQuot(time_offset, R(wave_period(g.pattern))))
             current_rps == RMax(RAdd(R(g.pattern.target_rps),
                                      RMul(wave_amplitude(g.pattern), wave_factor)),
                                 R(1))
         IN [g EXCEPT !.pc = "suspended",
                      !.request_interval = milliseconds(RDiv(R(1), current_rps)),
                      !.iterations = Append(@, [time |-> g.current_time,
                                                request_id |-> g.request_id,
                                                current_rps |-> current_rps,
                                                wave_factor |-> wave_factor,
                                                dispatched |-> TRUE])]
    ELSE [g EXCEPT !.pc = "done"]

\* pattern.user_arrival_rate or 1.0
user_arrival_rate(pattern) == python_or(pattern.user_arrival_rate, 1)

\* pattern.user_session_duration or (60, 300)
session_duration_range(pattern) ==
    IF pattern.user_session_duration = Unset THEN <<60, 300>>
    ELSE pattern.user_session_duration[1]

\* pattern.think_time_range or (1.0, 10.0)
think_time_range(pattern) ==
    IF pattern.think_time_range = Unset THEN <<R(1), R(10)>>
    ELSE pattern.think_time_range[1]

\* the top of a turn of the while loop: when the last arrival is
\* 1 / user_arrival_rate old a session starts, with any duration
\* random.randint can draw; the for loop starts at the first session
user_arrivals(g) ==
    LET range == session_duration_range(g.pattern)
        due == RLe(RQuot(R(1), R(user_arrival_rate(g.pattern))),
                   RSub(g.current_time, g.last_user_arrival))
    IN IF due
       THEN { [g EXCEPT !.active_sessions =
                            Append(@, [session_id |-> g.session_counter,
                                       start_time |-> g.current_time,
                                       end_time |-> RAdd(g.current_time, R(session_duration)),
                                       last_request_time |-> g.current_time,
                                       request_count |-> 0]),
                        !.session_counter = @ + 1,
                        !.last_user_arrival = g.current_time,
                        !.cursor = 1,
                        !.sessions_to_remove = {}] :
                 session_duration \in range[1]..range[2] }
       ELSE { [g EXCEPT !.cursor = 1, !.sessions_to_remove = {}] }

\* the end of a turn: the expired sessions are deleted and current_time
\* moves on by 0.1
user_turn_end(g) ==
    [g EXCEPT !.active_sessions =
                  SelectSeq(@, LAMBDA session : session.session_id \notin g.sessions_to_remove),
              !.current_time = RAdd(@, <<1, 10>>),
              !.cursor = 0]

\* RealisticUserTrafficGenerator: the frames at the next yield or at the end
\* of the schedule, from the top of a turn (cursor 0) or from inside the for
\* loop over active_sessions. A session asks for a request when
\* current_time has reached last_request_time + random.uniform(low, high):
\* never before `low` has passed, always once `high` has
RECURSIVE user_loop(_)
user_loop(g) ==
    IF g.cursor = 0
    THEN IF RLt(g.current_time, g.end_time)
         THEN UNION { user_loop(arrived) : arrived \in user_arrivals(g) }
         ELSE { [g EXCEPT !.pc = "done"] }
    ELSE IF g.cursor > Len(g.active_sessions)
    THEN user_loop(user_turn_end(g))
    ELSE LET session == g.active_sessions[g.cursor]
             waited == RSub(g.current_time, session.last_request_time)
             think == think_time_range(g.pattern)
             skipped == [g EXCEPT !.cursor = @ + 1]
         IN IF RLe(session.end_time, g.current_time)
            THEN user_loop([skipped EXCEPT !.sessions_to_remove = @ \cup {session.session_id}])
            ELSE (IF RLe(RMin(think[1], think[2]), waited)
                  THEN { [g EXCEPT !.pc = "suspended",
                                   !.iterations =
                                       Append(@, [time |-> g.current_time,
                                                  session_id |-> session.session_id,
                                                  session_request_count |-> session.request_count,
                                                  dispatched |-> TRUE])] }
                  ELSE {})
                 \cup (IF RLt(waited, RMax(think[1], think[2]))
                       THEN user_loop(skipped)
                       ELSE {})

\* the lines after the yield of a session: its last_request_time and
\* request_count are written and the for loop goes on
user_after_yield(g) ==
    [g EXCEPT !.active_sessions[g.cursor].last_request_time = g.current_time,
              !.active_sessions[g.cursor].request_count = @ + 1,
              !.cursor = @ + 1]

\* the lines before the loop of RealisticUserTrafficGenerator
user_before_loop(g, now) ==
    [generator_started(g, now) EXCEPT !.last_user_arrival = R(now), !.cursor = 0]

\* the spacing of the floats around a reading of time.time(): 2^-22 s for
\* the readings between 2^30 s and 2^31 s (the years 2004 to 2038), which
\* the clock of a schedule counts from
float_spacing == <<1, 4194304>>

\* current_time += request_interval on floats: an interval of less than
\* half the spacing is rounded away and the sum is current_time again; the
\* rounding of larger intervals is not followed. (n/d < 1/(2s) is decided
\* as n <= (d - 1) \div 2s, which stays within the integers of TLC.)
float_add(current_time, request_interval) ==
    IF /\ request_interval[1] >= 0
       /\ request_interval[1]
             <= (request_interval[2] - 1) \div (2 * float_spacing[2])
    THEN current_time
    ELSE RAdd(current_time, request_interval)

\* the lines after a yield: current_time += request_interval and
\* request_id += 1, and in a burst schedule next_burst_time moves on once
\* current_time has reached it
after_yield(g) ==
    LET current_time == float_add(g.current_time, g.request_interval)
    IN [g EXCEPT !.current_time = current_time,
                 !.request_id = @ + 1,
                 !.next_burst_time =
                     IF g.kind = "BurstTrafficGenerator" /\ RLe(@, current_time)
                     THEN RAdd(@, R(burst_interval(g.pattern)))
                     ELSE @]

\* the lines before the loop
before_loop(g, now) ==
    [generator_started(g, now) EXCEPT
        !.next_burst_time = R(now + burst_interval(g.pattern))]

\* __anext__ of the generator: from its creation or from its last yield to
\* the next yield or to the end
anext(g, now) ==
    LET resumed == IF g.pc = "created" THEN before_loop(g, now) ELSE after_yield(g)
    IN CASE g.kind = "ConstantTrafficGenerator" -> constant_loop(resumed)
         [] g.kind = "RampTrafficGenerator" -> ramp_loop(resumed)
         [] g.kind = "BurstTrafficGenerator" -> burst_loop(resumed)
         [] g.kind = "WaveTrafficGenerator" -> wave_loop(resumed)

\* the frames __anext__ can leave the generator in
anext_frames(g, now) ==
    IF g.kind = "RealisticUserTrafficGenerator"
    THEN user_loop(IF g.pc = "created" THEN user_before_loop(g, now)
                   ELSE user_after_yield(g))
    ELSE {anext(g, now)}

\* the turns of the loop that yielded
Dispatches(g) == SelectSeq(g.iterations, LAMBDA turn : turn.dispatched)

PatternUntouched ==
    UNCHANGED <<clock, throttle, inputs, pc, can_exec, stopped, last_permit, cvars,
                slo_monitor, engine>>

\* generator.generate_schedule(pattern): no line of the body runs yet
GenerateSchedule(pattern) ==
    /\ generator = NoGenerator
    /\ generator' = NewGenerator(pattern)
    /\ op' = <<"generate_schedule", pattern>>
    /\ ret' = None
    /\ PatternUntouched

\* the consumer asks for the next request of the schedule; a ramp is
\* followed for MaxRampYields dispatches
Anext ==
    /\ generator.pc \in {"created", "suspended"}
    /\ generator.kind = "RampTrafficGenerator"
          => Len(Dispatches(generator)) < MaxRampYields
    /\ generator.pc = "suspended" /\ generator.kind # "RealisticUserTrafficGenerator"
             /\ after_yield(generator).current_time = generator.current_time
          => Len(Dispatches(generator)) < MaxStuckYields
    /\ generator' \in anext_frames(generator, clock)
    /\ op' = <<"anext">>
    /\ ret' = IF generator'.pc = "done"
              THEN Outcome("raised", "StopAsyncIteration", <<>>)
              ELSE Outcome("yielded", generator'.iterations[Len(generator'.iterations)], <<>>)
    /\ PatternUntouched

\* no schedule yet, at any of the start times
InitPattern ==
    /\ clock \in StartTimes
    /\ throttle = NewThrottle(Config("exponential", 1, 2, 4, 5), 1)
    /\ inputs = [results |-> {}, targets |-> {}, handshakes |-> <<>>]
    /\ pc = [t \in Tasks |-> <<"ready">>]
    /\ op = <<"init">>
    /\ ret = None
    /\ can_exec = None
    /\ stopped = FALSE
    /\ last_permit = 0
    /\ CoordinatorsIdle(<<>>)
    /\ MetricsIdle

NextPattern ==
    \/ \E pattern \in ConstantPatterns \cup RampPatterns : GenerateSchedule(pattern)
    \/ Anext

SpecPattern == InitPattern /\ [][NextPattern]_vars

\* burst schedules: the base rate, the window every 6 s or every 30 s (the
\* default), multipliers given, not given, 0 and negative
BurstPatterns ==
    { [RequestPattern("burst", run[1], run[2], Unset, Unset) EXCEPT
          !.burst_interval_seconds = run[3], !.burst_multiplier = run[4]] :
         run \in { <<8, 1, Given(6), Given(2)>>, <<8, 1, Given(6), Unset>>,
                   <<8, 2, Given(6), Given(0)>>, <<8, 1, Given(6), Given(-1)>>,
                   <<8, 0, Given(6), Given(2)>>, <<36, 1, Unset, Given(2)>>,
                   <<7, 2, Given(3), Given(2)>>, <<7, 1, Given(-4), Given(2)>> } }

\* wave schedules: a quarter period of 1 s or 3 s or the default period,
\* amplitudes given, not given, 0 and negative, base rates from 0
WavePatterns ==
    { [RequestPattern("wave", run[1], run[2], Unset, Unset) EXCEPT
          !.wave_amplitude = run[3], !.wave_period_seconds = run[4]] :
         run \in { <<1, 2, Unset, Given(4)>>, <<2, 1, Given(2), Given(4)>>,
                   <<2, 1, Given(-2), Given(4)>>, <<2, 0, Given(0), Given(12)>>,
                   <<1, 3, Given(-5), Given(-4)>>, <<1, 2, Given(1), Unset>>,
                   <<0, 1, Unset, Unset>>, <<2, -1, Given(3), Given(12)>> } }

\* user schedules: a session every 0.5 s for 1 s or 2 s with a think time
\* of 0.2 s to 0.4 s, a negative arrival rate (a session every turn) with a
\* fixed think time, and the defaults
UserPatterns ==
    { [RequestPattern("realistic_user", run[1], 1, Unset, Unset) EXCEPT
          !.user_arrival_rate = run[2], !.user_session_duration = run[3],
          !.think_time_range = run[4]] :
         run \in { <<2, Given(2), Given(<<1, 2>>), Given(<< <<1, 5>>, <<2, 5>> >>)>>,
                   <<1, Given(-1), Given(<<1, 1>>), Given(<< <<3, 10>>, <<3, 10>> >>)>>,
                   <<2, Given(0), Unset, Unset>>,
                   <<0, Unset, Unset, Unset>> } }

\* constant and ramp schedules with negative rates and negative durations,
\* and a constant schedule of 2^24 requests per second
OtherPatterns ==
    { RequestPattern("constant", 2, -1, Unset, Unset),
      RequestPattern("constant", -1, 2, Unset, Unset),
      RequestPattern("constant", 1, 16777216, Unset, Unset),
      RequestPattern("ramp_up", 1, -2, Given(-3), Unset),
      RequestPattern("ramp_down", 1, 2, Given(1), Given(-2)),
      RequestPattern("ramp_up", -1, 2, Given(1), Given(2)) }

\* the patterns of every generator
Patterns == ConstantPatterns \cup RampPatterns \cup BurstPatterns \cup WavePatterns
               \cup UserPatterns \cup OtherPatterns

\* the schedules of all generators
NextSchedules ==
    \/ \E pattern \in Patterns : GenerateSchedule(pattern)
    \/ Anext

SpecSchedules == InitPattern /\ [][NextSchedules]_vars

\* ------------------------------------------------------ the load test run
\* the patterns of a load test: 1 or 2 requests per second for 1 s or 2 s
EnginePatterns ==
    { RequestPattern("constant", duration_seconds, target_rps, Unset, Unset) :
         duration_seconds \in 1..2, target_rps \in 1..2 }

\* the generator consumed to its end by the `async for` of execute_patterns,
\* which awaits nothing
RECURSIVE schedule_all(_, _)
schedule_all(g, now) ==
    LET next == anext(g, now)
    IN IF next.pc = "done" THEN next ELSE schedule_all(next, now)

\* execute_patterns up to its sleep: asyncio.create_task(_schedule_request)
\* for every request of the schedule
execute_patterns(pattern, now) ==
    LET schedule == Dispatches(schedule_all(NewGenerator(pattern), now))
    IN [i \in 1..Len(schedule) |->
           [scheduled_time |-> schedule[i].time, pc |-> "created"]]

\* _schedule_request up to its first await: with a positive delay it sleeps,
\* otherwise the request callback is invoked
schedule_request(task, now) ==
    IF RLt(R(now), task.scheduled_time)
    THEN [task EXCEPT !.pc = "sleeping"]
    ELSE [task EXCEPT !.pc = "in_flight"]

\* the tasks the runner cancels when the main coroutine is over
cancel_all_tasks(tasks) ==
    [i \in DOMAIN tasks |->
        IF tasks[i].pc = "done" THEN tasks[i] ELSE [tasks[i] EXCEPT !.pc = "cancelled"]]

\* the event loop runs tasks while the main coroutine is suspended or over
\* and the runner has not closed the loop
LoopRuns == engine.pc \in {"sleeping", "completed", "interrupted"}

EngineUntouched ==
    UNCHANGED <<throttle, inputs, pc, can_exec, stopped, last_permit, coordinator,
                handlers, calls, monitor, slo_monitor, generator>>

\* run_load_test from coordinator.start_test to the sleep of
\* execute_patterns: the test is registered and every request of the
\* pattern becomes a task
RunLoadTest(pattern) ==
    /\ engine.pc = "none"
    /\ uuids' = uuids + 1
    /\ test_coordinator' = tc_start_test(test_coordinator, uuids + 1)
    /\ engine' = [pc |-> "sleeping", current_test_id |-> uuids + 1, running |-> TRUE,
                  wake |-> clock + pattern.duration_seconds,
                  tasks |-> execute_patterns(pattern, clock)]
    /\ op' = <<"run_load_test", pattern>>
    /\ ret' = None
    /\ UNCHANGED clock
    /\ EngineUntouched

\* the first step of the i-th _schedule_request task; tasks start in the
\* order of their creation
ScheduleRequest(i) ==
    /\ LoopRuns
    /\ engine.tasks[i].pc = "created"
    /\ \A j \in 1..(i - 1) : engine.tasks[j].pc # "created"
    /\ engine' = [engine EXCEPT !.tasks[i] = schedule_request(@, clock)]
    /\ op' = <<"schedule_request", i>>
    /\ ret' = None
    /\ UNCHANGED <<clock, test_coordinator, uuids>>
    /\ EngineUntouched

\* the sleep of the i-th task is over: the request callback is invoked
RequestDue(i) ==
    /\ LoopRuns
    /\ engine.tasks[i].pc = "sleeping"
    /\ RLe(engine.tasks[i].scheduled_time, R(clock))
    /\ engine' = [engine EXCEPT !.tasks[i].pc = "in_flight"]
    /\ op' = <<"request_callback", i>>
    /\ ret' = None
    /\ UNCHANGED <<clock, test_coordinator, uuids>>
    /\ EngineUntouched

\* the request callback of the i-th task returns or raises
RequestDone(i) ==
    /\ LoopRuns
    /\ engine.tasks[i].pc = "in_flight"
    /\ engine' = [engine EXCEPT !.tasks[i].pc = "done"]
    /\ op' = <<"request_done", i>>
    /\ ret' = None
    /\ UNCHANGED <<clock, test_coordinator, uuids>>
    /\ EngineUntouched

\* time passes while execute_patterns sleeps
EngineTick ==
    /\ engine.pc = "sleeping"
    /\ clock < engine.wake
    /\ clock' = clock + 1
    /\ op' = <<"tick">>
    /\ ret' = None
    /\ UNCHANGED <<engine, test_coordinator, uuids>>
    /\ EngineUntouched

\* the finally clause of run_load_test
finally_stop_test(self, tester) == tc_stop_test(self, tester.current_test_id)

\* asyncio.sleep(duration_seconds) is over, after the sleeps of the tasks,
\* whose deadlines are earlier; execute_patterns returns its stats and the
\* finally clause stops the test
PatternCompleted ==
    /\ engine.pc = "sleeping"
    /\ clock >= engine.wake
    /\ \A i \in DOMAIN engine.tasks : engine.tasks[i].pc \in {"in_flight", "done"}
    /\ engine' = [engine EXCEPT !.pc = "completed", !.running = FALSE]
    /\ test_coordinator' = finally_stop_test(test_coordinator, engine)
    /\ op' = <<"execute_patterns">>
    /\ ret' = Outcome("returned", "stats", <<>>)
    /\ UNCHANGED <<clock, uuids>>
    /\ EngineUntouched

\* the task running run_load_test is cancelled while execute_patterns
\* sleeps (Ctrl-C under asyncio.run, or the caller's cancel): CancelledError
\* passes both except clauses and the finally clause stops the test
RunCancelled ==
    /\ engine.pc = "sleeping"
    /\ \A i \in DOMAIN engine.tasks : engine.tasks[i].pc # "created"
    /\ engine' = [engine EXCEPT !.pc = "interrupted", !.running = FALSE]
    /\ test_coordinator' = finally_stop_test(test_coordinator, engine)
    /\ op' = <<"cancelled">>
    /\ ret' = Outcome("raised", "CancelledError", <<>>)
    /\ UNCHANGED <<clock, uuids>>
    /\ EngineUntouched

\* asyncio.run closes its loop once the main coroutine is over: every task
\* that is not done is cancelled
RunnerClosed ==
    /\ engine.pc \in {"completed", "interrupted"}
    /\ engine' = [engine EXCEPT !.pc = "closed", !.tasks = cancel_all_tasks(@)]
    /\ op' = <<"runner_closed">>
    /\ ret' = None
    /\ UNCHANGED <<clock, test_coordinator, uuids>>
    /\ EngineUntouched

NextEngine ==
    \/ \E pattern \in EnginePatterns : RunLoadTest(pattern)
    \/ \E i \in DOMAIN engine.tasks : ScheduleRequest(i)
    \/ \E i \in DOMAIN engine.tasks : RequestDue(i)
    \/ \E i \in DOMAIN engine.tasks : RequestDone(i)
    \/ EngineTick
    \/ PatternCompleted
    \/ RunCancelled
    \/ RunnerClosed

SpecEngine == InitPattern /\ [][NextEngine]_vars

\* ------------------------------------------------------------ properties
\* the call made by the step that led to the current state
Called(name) == op[1] = name

breaker == throttle.circuit_breaker

\* the recorded result of the last step counts as a success / a failure for
\* the circuit breaker
RecordedSuccess == Called("record_request_result") /\ 200 <= op[3] /\ op[3] < 400

RecordedFailure == Called("record_request_result") /\ ~(200 <= op[3] /\ op[3] < 400)

\* less than recovery_timeout has elapsed since the breaker opened
BreakerTimeoutPending ==
    RLt(Secs(clock - breaker.last_failure_time), breaker.recovery_timeout)

\* C1 (as claimed): once the state is EMERGENCY_STOP, every call other than
\* reset_emergency_stop leaves the state EMERGENCY_STOP and current_rps 0.
C1_EmergencyStopLatched ==
    [][ (throttle.state = "emergency_stop" /\ ~Called("reset_emergency_stop")')
          => (throttle'.state = "emergency_stop" /\ throttle'.current_rps = R(0)) ]_vars

\* C2: after an emergency stop was triggered and until it is reset, every
\* should_make_request returns allowed = false.
C2_NoDispatchWhileStopped ==
    (Called("should_make_request") /\ stopped) => ret[1] = FALSE

\* C2 witness: the breaker let the call through and the emergency check
\* refused it, after further results were recorded in the stop
C2_Witness ==
    /\ Called("should_make_request") /\ stopped
    /\ can_exec = <<TRUE>>
    /\ ret = <<FALSE, None>>
    /\ throttle.state = "backing_off"

\* C3: the state EMERGENCY_STOP implies current_rps = 0.
C3_StopImpliesZeroRate ==
    throttle.state = "emergency_stop" => throttle.current_rps = R(0)

\* C3 witness: a call made in EMERGENCY_STOP that left it there
C3_Witness ==
    /\ throttle.state = "emergency_stop"
    /\ Called("set_target_rps")

RateWithinBounds ==
    /\ RLe(R(throttle.config.min_rps), throttle.current_rps)
    /\ RLe(throttle.current_rps, R(throttle.config.max_rps))
    /\ RLe(throttle.current_rps, R(throttle.config.absolute_max_rps))

\* C4 (as claimed): current_rps is within [min_rps, max_rps] and at most
\* absolute_max_rps in every reachable state.
C4_RateAlwaysClamped == RateWithinBounds

\* C4 (amended): current_rps is within [min_rps, max_rps] and at most
\* absolute_max_rps in every reachable state whose ThrottleState is not
\* EMERGENCY_STOP; in EMERGENCY_STOP it is 0.
C4_RateClampedUnlessStopped ==
    IF throttle.state = "emergency_stop"
    THEN throttle.current_rps = R(0)
    ELSE RateWithinBounds

\* C4 witness: a back-off that halved the rate down to the floor min_rps
C4_Witness ==
    /\ throttle.state = "backing_off"
    /\ throttle.current_rps = R(throttle.config.min_rps)
    /\ throttle.backoff_attempt >= 2

\* C5: a record_request_result that runs the periodic assessment on at least
\* 3 snapshots whose recent mean error rate exceeds emergency_stop_error_rate
\* ends in EMERGENCY_STOP with current_rps 0 and the emergency flag set.
C5_AssessmentForcesStop ==
    [][ ( /\ Called("record_request_result")'
          /\ RLe(throttle.config.health_check_interval,
                 Secs(clock - throttle.last_health_check))
          /\ Len(throttle'.health_metrics_history) >= 3
          /\ RLt(throttle.config.emergency_stop_error_rate, avg_error_rate_of(throttle') ) )
        => ( /\ throttle'.state = "emergency_stop"
             /\ throttle'.current_rps = R(0)
             /\ throttle'.emergency_stop_triggered
             /\ throttle'.last_health_check = clock ) ]_vars

\* C5 witness: the stop was forced by a result that also triggered a back-off
C5_Witness ==
    /\ Called("record_request_result") /\ op[3] >= 500
    /\ throttle.state = "emergency_stop"
    /\ throttle.last_backoff_time = clock
    /\ throttle.last_health_check = clock

\* C6: while the breaker is Open and recovery_timeout has not elapsed,
\* should_make_request returns (false, circuit_timeout) and leaves
\* last_request_time alone, whatever the ThrottleState and the rate.
C6_OpenBreakerBlocks ==
    [][ ( /\ Called("should_make_request")'
          /\ breaker.state = "open"
          /\ BreakerTimeoutPending )
        => ( /\ ret' = <<FALSE, throttle.config.circuit_timeout>>
             /\ throttle'.last_request_time = throttle.last_request_time
             /\ last_permit' = last_permit ) ]_vars

\* C6 witness: a call refused by the open breaker outside NORMAL
C6_Witness ==
    /\ Called("should_make_request")
    /\ breaker.state = "open" /\ BreakerTimeoutPending
    /\ ret = <<FALSE, throttle.config.circuit_timeout>>
    /\ throttle.state = "backing_off"

\* C7: the breaker leaves Closed only for Open, only on the failure that
\* brings the count of consecutive failures to failure_threshold, and
\* can_execute() is then false; a success in Closed resets the count.
C7_OpensAtThreshold ==
    [][ /\ (breaker.state = "closed" /\ breaker'.state # "closed")
            => ( /\ RecordedFailure'
                 /\ breaker.failure_count + 1 = breaker.failure_threshold
                 /\ breaker'.state = "open"
                 /\ ~can_execute(breaker', clock').result )
        /\ (breaker.state = "closed" /\ RecordedFailure')
            => IF breaker.failure_count + 1 >= breaker.failure_threshold
               THEN breaker'.state = "open"
               ELSE /\ breaker'.state = "closed"
                    /\ breaker'.failure_count = breaker.failure_count + 1
        /\ (breaker.state = "closed" /\ RecordedSuccess')
            => (breaker'.state = "closed" /\ breaker'.failure_count = 0)
        /\ (breaker.state = "closed" /\ ~Called("record_request_result")')
            => breaker' = breaker
        /\ (breaker.state # "closed" /\ breaker'.state = "closed")
            => breaker'.failure_count = 0 ]_vars

\* C7 witness: the breaker has just opened on the threshold-th failure
C7_Witness ==
    /\ RecordedFailure
    /\ breaker.state = "open"
    /\ breaker.last_failure_time = clock
    /\ breaker.failure_count = breaker.failure_threshold

\* C8: in Open, can_execute() returns false and changes nothing while the
\* timeout is pending; once it has elapsed the call returns true and moves
\* the breaker to HalfOpen; nothing else moves it to HalfOpen.
C8_HalfOpenOnlyByCheck ==
    [][ /\ (breaker'.state = "half_open" /\ breaker.state # "half_open")
            => ( /\ Called("should_make_request")'
                 /\ breaker.state = "open"
                 /\ ~BreakerTimeoutPending
                 /\ breaker'.success_count = 0 )
        /\ (Called("should_make_request")' /\ breaker.state = "open")
            => IF BreakerTimeoutPending
               THEN can_exec' = <<FALSE>> /\ breaker' = breaker
               ELSE can_exec' = <<TRUE>> /\ breaker'.state = "half_open" ]_vars

\* C8 witness: the check that half-opened the breaker
C8_Witness ==
    /\ Called("should_make_request")
    /\ can_exec = <<TRUE>>
    /\ breaker.state = "half_open"
    /\ breaker.success_count = 0
    /\ Secs(clock - breaker.last_failure_time) = breaker.recovery_timeout

\* C9: HalfOpen is left only by a recorded failure (to Open, restarting the
\* timeout, success count 0) or by the success_threshold-th consecutive
\* recorded success (to Closed, both counts 0); fewer successes stay HalfOpen.
C9_HalfOpenExits ==
    [][ breaker.state = "half_open" =>
          /\ RecordedFailure'
              => ( /\ breaker'.state = "open"
                   /\ breaker'.last_failure_time = clock
                   /\ breaker'.success_count = 0 )
          /\ RecordedSuccess'
              => IF breaker.success_count + 1 = breaker.success_threshold
                 THEN /\ breaker'.state = "closed"
                      /\ breaker'.failure_count = 0
                      /\ breaker'.success_count = 0
                 ELSE /\ breaker'.state = "half_open"
                      /\ breaker'.success_count = breaker.success_count + 1
                      /\ breaker'.success_count < breaker.success_threshold
          /\ ~Called("record_request_result")' => breaker' = breaker ]_vars

\* C9 witness: the breaker closed again after having been open
C9_Witness ==
    /\ RecordedSuccess
    /\ breaker.state = "closed"
    /\ breaker.last_failure_time > 0
    /\ breaker.failure_count = 0 /\ breaker.success_count = 0

\* the minimum interval between dispatches at the current rate
target_interval_of(self) == RDiv(R(1), self.current_rps)

\* C10: a dispatch is permitted only when at least 1/current_rps has elapsed
\* since the last permitted one; a call that gets as far as the interval
\* check earlier than that returns (false, remaining wait) and leaves
\* last_request_time alone; no two tasks are permitted at the same time.
C10_MinimumInterval ==
    [][ Called("should_make_request")' =>
          /\ (ret'[1] /\ last_permit > 0)
              => RLe(target_interval_of(throttle'), Secs(clock - last_permit))
          /\ ( /\ can_exec' = <<TRUE>>
               /\ ~throttle.emergency_stop_triggered
               /\ RLt(R(0), throttle'.current_rps)
               /\ last_permit > 0
               /\ RLt(Secs(clock - last_permit), target_interval_of(throttle')) )
              => ( /\ ret' = <<FALSE, RSub(target_interval_of(throttle'),
                                          Secs(clock - last_permit))>>
                   /\ throttle'.last_request_time = throttle.last_request_time )
          /\ \A t, u \in Tasks :
                (t # u /\ pc'[t][1] = "requesting" /\ pc'[u][1] = "requesting")
                    => pc'[t][2] # pc'[u][2] ]_vars

\* C10 witness: a task was permitted and a concurrent task asking at the
\* same clock reading is refused with the whole interval of 2 seconds to wait
C10_Witness ==
    /\ Called("should_make_request")
    /\ ret = <<FALSE, R(2)>>
    /\ target_interval_of(throttle) = R(2)
    /\ last_permit = clock
    /\ \E t, u \in Tasks :
          /\ pc[t] = <<"requesting", clock>>
          /\ pc[u] = <<"sleeping", R(clock + 2)>>

\* the result recorded by the last step is an immediate back-off trigger:
\* latency above response_time_threshold, a connection-class error or a
\* status >= 500
BackoffTriggerRecorded ==
    /\ Called("record_request_result")
    /\ \/ op[2] > throttle.config.response_time_threshold
       \/ is_connection_error(op[4])
       \/ op[3] >= 500

\* max(current_rps * 0.5, min_rps)
HalvedRate(self) == RMax(RMul(self.current_rps, <<1, 2>>), R(self.config.min_rps))

\* C11 (as claimed): every record_request_result whose result is an immediate
\* trigger enters BACKING_OFF, halves current_rps (not below min_rps) and
\* increments backoff_attempt by one, from whatever state, BACKING_OFF
\* included.
C11_BackoffOnEveryTrigger ==
    [][ BackoffTriggerRecorded' =>
          ( /\ throttle'.state = "backing_off"
            /\ throttle'.current_rps = HalvedRate(throttle)
            /\ throttle'.backoff_attempt = throttle.backoff_attempt + 1 ) ]_vars

\* the time since the back-off began has reached calculate_delay(attempt, 1 s)
BackoffDelayElapsed ==
    RLe(calculate_delay(throttle, throttle.backoff_attempt, R(1)),
        Secs(clock - throttle.last_backoff_time))

\* C12 (as claimed): should_make_request called in BACKING_OFF, the breaker
\* permitting and no emergency stop triggered, moves to RECOVERY with the
\* attempt counter 0 when the back-off delay has elapsed and otherwise leaves
\* state and counter alone; and no other step takes BACKING_OFF to RECOVERY.
C12_RecoveryOnlyAfterDelay ==
    [][ /\ ( /\ Called("should_make_request")'
             /\ throttle.state = "backing_off"
             /\ can_exec' = <<TRUE>>
             /\ ~throttle.emergency_stop_triggered )
          => IF BackoffDelayElapsed
             THEN throttle'.state = "recovery" /\ throttle'.backoff_attempt = 0
             ELSE /\ throttle'.state = "backing_off"
                  /\ throttle'.backoff_attempt = throttle.backoff_attempt
        /\ (throttle.state = "backing_off" /\ throttle'.state = "recovery")
          => (Called("should_make_request")' /\ BackoffDelayElapsed) ]_vars

\* a periodic assessment in RECOVERY on at least 3 snapshots whose recent
\* mean error rate is below 2 and mean latency below performance_target_p95
\* sets current_rps = min(current_rps * 1.1, target_rps) and moves to NORMAL
\* exactly when the new rate is at least 90% of target_rps
RecoveryAssessmentGrows ==
    ( /\ Called("record_request_result")'
      /\ throttle.state = "recovery"
      /\ AssessmentDue
      /\ Len(throttle'.health_metrics_history) >= 3
      /\ RLt(avg_error_rate_of(throttle'), R(2))
      /\ RLt(avg_response_time_of(throttle'), R(throttle.config.performance_target_p95)) )
    => LET new_rps == RMin(RMul(throttle.current_rps, <<11, 10>>), throttle.target_rps)
       IN /\ throttle'.current_rps = new_rps
          /\ throttle'.state = IF RLe(RMul(throttle.target_rps, <<9, 10>>), new_rps)
                               THEN "normal" ELSE "recovery"

RateWithinTarget == RLe(throttle.current_rps, throttle.target_rps)

\* C13 (as claimed): each healthy assessment in RECOVERY grows the rate by
\* 1.1 up to target_rps and moves to NORMAL at 90% of it; starting from
\* RECOVERY at min_rps > 0 with healthy results only and assessments that
\* keep occurring, NORMAL is eventually reached and current_rps never
\* exceeds target_rps.
C13_RecoveryReachesNormal ==
    /\ [][RecoveryAssessmentGrows]_vars
    /\ []RateWithinTarget
    /\ <>(throttle.state = "normal")

\* C13 (amended): as C13, but the run ends in NORMAL or in an emergency
\* stop forced by an assessment on error snapshots recorded before the
\* recovery; a recovery that starts with no error snapshot in the health
\* window reaches NORMAL.
C13_RecoveryReachesNormalOrStop ==
    /\ [][RecoveryAssessmentGrows]_vars
    /\ []RateWithinTarget
    /\ <>(throttle.state \in {"normal", "emergency_stop"})
    /\ (\A i \in 1..Len(throttle.health_metrics_history) :
            throttle.health_metrics_history[i].error_rate = 0)
          => <>(throttle.state = "normal")

\* C13 witness: NORMAL reached by a recovery assessment that grew the rate
\* from below 90% of target_rps
C13_Witness ==
    /\ Called("record_request_result")
    /\ throttle.state = "normal"
    /\ throttle.last_health_check = clock
    /\ RLe(RMul(throttle.target_rps, <<9, 10>>), throttle.current_rps)
    /\ RLt(throttle.current_rps, throttle.target_rps)
    /\ clock >= 8

\* C14: reset_emergency_stop called while the emergency stop is triggered
\* clears the flag and enters RECOVERY with current_rps = min_rps and the
\* attempt counter 0, and touches nothing else; called when no emergency
\* stop is triggered it changes nothing.
C14_ResetEmergencyStop ==
    [][ Called("reset_emergency_stop")' =>
          IF throttle.emergency_stop_triggered
          THEN /\ ~throttle'.emergency_stop_triggered
               /\ throttle'.state = "recovery"
               /\ throttle'.current_rps = R(throttle.config.min_rps)
               /\ throttle'.backoff_attempt = 0
               /\ throttle'.target_rps = throttle.target_rps
               /\ throttle'.health_metrics_history = throttle.health_metrics_history
               /\ throttle'.circuit_breaker = throttle.circuit_breaker
          ELSE throttle' = throttle ]_vars

\* C14 witness: the reset of a stop that was forced at this clock reading on
\* a throttle that had backed off, with the target raised before
C14_Witness ==
    /\ Called("reset_emergency_stop")
    /\ throttle.state = "recovery"
    /\ ~throttle.emergency_stop_triggered
    /\ throttle.current_rps = R(throttle.config.min_rps)
    /\ throttle.backoff_attempt = 0
    /\ throttle.last_backoff_time = clock
    /\ throttle.last_health_check = clock
    /\ throttle.target_rps = R(4)

\* r clamped to [min_rps, max_rps] and then to at most absolute_max_rps
ClampedTarget(r) ==
    RMin(RMax(R(throttle.config.min_rps), RMin(R(r), R(throttle.config.max_rps))),
         R(throttle.config.absolute_max_rps))

\* C15: set_target_rps(r) stores r clamped to [min_rps, max_rps] and to at
\* most absolute_max_rps as target_rps; current_rps becomes the clamped value
\* exactly when the state is NORMAL and no emergency stop is triggered, and
\* is unchanged otherwise.
C15_SetTargetRps ==
    [][ Called("set_target_rps")' =>
          /\ throttle'.target_rps = ClampedTarget(op'[2])
          /\ RLe(R(throttle.config.min_rps), throttle'.target_rps)
          /\ RLe(throttle'.target_rps, R(throttle.config.max_rps))
          /\ RLe(throttle'.target_rps, R(throttle.config.absolute_max_rps))
          /\ throttle'.current_rps =
                IF throttle.state = "normal" /\ ~throttle.emergency_stop_triggered
                THEN throttle'.target_rps
                ELSE throttle.current_rps
          /\ throttle'.state = throttle.state ]_vars

\* C15 witness: a target of 6 stored as absolute_max_rps = 3, below
\* max_rps = 4, while the throttle is backing off at another rate
C15_Witness ==
    /\ Called("set_target_rps") /\ op[2] = 6
    /\ throttle.config.max_rps = 4
    /\ throttle.target_rps = R(3)
    /\ throttle.state = "backing_off"
    /\ throttle.current_rps = R(1)

\* --------------------------------------------- coordinator properties
\* a call of caller op[2] came back (returned or raised) in the last step
CallCameBack == DOMAIN ret = {"outcome", "value", "sent"}

StartCameBack == Called("start_command_sent") /\ CallCameBack

\* the target_rps of the start commands in their order
RatesOf(sent) == [j \in 1..Len(sent) |-> sent[j].target_rps]

Members(s) == { s[j] : j \in DOMAIN s }

\* the nodes that are Worker, Ready and have a registered connection
EligibleWorkers(self) ==
    { self.nodes[j].node_id :
        j \in { j \in 1..Len(self.nodes) :
                  /\ self.nodes[j].role = "worker"
                  /\ self.nodes[j].status = "ready"
                  /\ self.nodes[j].node_id \in DOMAIN self.active_connections } }

\* a call of start_distributed_test raises when no node is eligible and
\* otherwise stores a TestCommand whose assigned_nodes are the eligible
\* nodes, each once
AssignedAreEligible ==
    Called("start_distributed_test")' =>
       IF EligibleWorkers(coordinator) = {}
       THEN CallCameBack' /\ ret'.outcome = "raised"
       ELSE /\ ~CallCameBack'
            /\ LET test_command == calls'[op'[2]].command
               IN /\ Members(test_command.assigned_nodes) = EligibleWorkers(coordinator)
                  /\ Len(test_command.assigned_nodes) = Cardinality(EligibleWorkers(coordinator))
                  /\ test_command.command_id \in DOMAIN coordinator'.active_tests
                  /\ coordinator'.active_tests[test_command.command_id] = test_command

\* the nodes a send of the start command was attempted for
SentTo(sent) ==
    { sent[j].to : j \in { j \in DOMAIN sent : sent[j].outcome \in {"delivered", "failed"} } }

\* when the call returns, a send was attempted for every assigned node
AssignedAreSent ==
    StartCameBack' => SentTo(ret'.sent) = Members(calls[op'[2]].command.assigned_nodes)

\* one step of the send loop of caller op'[2]: the commands built so far are
\* kept, every command is a start_test of this test for the assigned node of
\* its position, the awaited send ends as the step says, a node passed over
\* in this step has no connection, and the node now waited for has one
StartLoopStep ==
    (Called("start_command_sent")' \/ (Called("start_distributed_test")' /\ ~CallCameBack')) =>
       LET k == op'[2]
           first == Called("start_distributed_test")'
           test_command == IF first THEN calls'[k].command ELSE calls[k].command
           before == IF first THEN <<>> ELSE calls[k].sent
           after == IF CallCameBack' THEN ret'.sent ELSE calls'[k].sent
           n == Len(test_command.assigned_nodes)
       IN /\ Len(before) <= Len(after) /\ Len(after) <= n
          /\ \A j \in 1..Len(before) : after[j] = before[j]
          /\ \A j \in 1..Len(after) :
                /\ after[j].to = test_command.assigned_nodes[j]
                /\ after[j].command = "start_test"
                /\ after[j].test_id = test_command.command_id
          /\ \A j \in (Len(before) + 1)..Len(after) :
                IF ~first /\ j = Len(before) + 1
                THEN after[j].outcome = (IF op'[3] THEN "delivered" ELSE "failed")
                ELSE /\ after[j].outcome = "no_connection"
                     /\ after[j].to \notin DOMAIN coordinator.active_connections
          /\ ~first => Len(after) > Len(before)
          /\ IF CallCameBack'
             THEN Len(after) = n /\ ret'.outcome = "returned"
                  /\ ret'.value = test_command.command_id
             ELSE /\ calls'[k].i = Len(after) + 1
                  /\ test_command.assigned_nodes[Len(after) + 1]
                        \in DOMAIN coordinator.active_connections

\* C17 as stated: at the call of start_distributed_test a node is in
\* assigned_nodes if and only if it is Worker, Ready and connected, and
\* every assigned node is sent a start_test command.
C17_AssignedAndSentIffEligible == [][AssignedAreEligible /\ AssignedAreSent]_vars

\* C17: at the call of start_distributed_test a node is in assigned_nodes if
\* and only if it is Worker, Ready and connected at that moment; start_test
\* commands are built for the assigned nodes only, one each in list order,
\* and the send of a node's command is attempted exactly when the node still
\* has a registered connection at its turn in the loop.
C17_AssignedIffEligible == [][AssignedAreEligible /\ StartLoopStep]_vars

\* C17 witness: a test assigned to w1 and w2; w2 lost its connection while
\* the send to w1 was awaited, and the call returned without a send to w2
C17_Witness ==
    /\ StartCameBack
    /\ ret.outcome = "returned"
    /\ Len(ret.sent) = 2
    /\ ret.sent[1].to = "w1" /\ ret.sent[1].outcome = "delivered"
    /\ ret.sent[2].to = "w2" /\ ret.sent[2].outcome = "no_connection"
    /\ coordinator.active_tests[ret.value].assigned_nodes = <<"w1", "w2">>
    /\ "w2" \notin DOMAIN coordinator.active_connections

\* C18: start_distributed_test with no eligible worker raises an error, adds
\* no TestCommand to active_tests, sends no command (none is built and no
\* send is left in progress) and leaves the node table and the connections
\* as they are.
C18_NoEligibleNoEffect ==
    [][ (Called("start_distributed_test")' /\ EligibleWorkers(coordinator) = {}) =>
          /\ ret' = Outcome("raised", "ValueError", <<>>)
          /\ coordinator'.active_tests = coordinator.active_tests
          /\ coordinator'.nodes = coordinator.nodes
          /\ coordinator'.active_connections = coordinator.active_connections
          /\ calls' = calls
          /\ handlers' = handlers ]_vars

\* C18 witness: the call raised in a cluster of two connected nodes, an
\* observer that is ready and a worker that reported itself running
C18_Witness ==
    /\ Called("start_distributed_test")
    /\ CallCameBack /\ ret.outcome = "raised" /\ ret.sent = <<>>
    /\ DOMAIN coordinator.active_connections = {"o1", "w1"}
    /\ Len(coordinator.nodes) = 2
    /\ \E j \in 1..2 : /\ coordinator.nodes[j].node_id = "o1"
                       /\ coordinator.nodes[j].status = "ready"
    /\ \E j \in 1..2 : /\ coordinator.nodes[j].node_id = "w1"
                       /\ coordinator.nodes[j].status = "running"
    /\ DOMAIN coordinator.active_tests = {}

\* a step of stop_test on a test that is active when the call is made
StopActiveCalled == Called("stop_test")' /\ op'[3] \in DOMAIN coordinator.active_tests

\* one step of stop_test(test_id) of caller op'[2] on an active test: the
\* stop commands sent so far are kept, the awaited send ends as the step
\* says, every assigned node passed over in this step has no connection, the
\* node now waited for has one, and when no node is left the call comes
\* back with the TestCommand gone from active_tests
StopLoopStep ==
    (Called("stop_command_sent")' \/ StopActiveCalled) =>
       LET k == op'[2]
           first == Called("stop_test")'
           test_command == IF first THEN coordinator.active_tests[op'[3]]
                           ELSE calls[k].command
           assigned == test_command.assigned_nodes
           from == IF first THEN 1 ELSE calls[k].i + 1
           to == IF CallCameBack' THEN Len(assigned) + 1 ELSE calls'[k].i
           before == IF first THEN <<>> ELSE calls[k].sent
           after == IF CallCameBack' THEN ret'.sent ELSE calls'[k].sent
       IN /\ from <= to /\ to <= Len(assigned) + 1
          /\ \A j \in from..(to - 1) :
                assigned[j] \notin DOMAIN coordinator.active_connections
          /\ IF first
             THEN after = <<>>
             ELSE after = Append(before,
                                 [to |-> assigned[calls[k].i], command |-> "stop_test",
                                  test_id |-> test_command.command_id,
                                  outcome |-> IF op'[3] THEN "delivered" ELSE "failed"])
          /\ IF CallCameBack'
             THEN /\ test_command.command_id \notin DOMAIN coordinator'.active_tests
                  /\ calls'[k] = NoCall
             ELSE /\ assigned[to] \in DOMAIN coordinator.active_connections
                  /\ calls'[k].command = test_command
                  /\ coordinator' = coordinator
          /\ coordinator'.nodes = coordinator.nodes
          /\ coordinator'.active_connections = coordinator.active_connections

\* C19: stop_test on an active test is best-effort: going through the
\* assigned nodes in order it attempts a stop command for every node that
\* still has a connection at its turn and passes over the others, a failed
\* send does not end the loop, and when the call comes back the TestCommand
\* is no longer in active_tests, whatever became of each send.
C19_StopBestEffort == [][StopLoopStep]_vars

\* C19 witness: the stop of a test assigned to w1 and w2 returned after w1
\* had been passed over (disconnected) and the send to w2 had failed, and
\* the TestCommand is gone
C19_Witness ==
    /\ Called("stop_command_sent") /\ CallCameBack
    /\ ret.outcome = "returned"
    /\ Len(ret.sent) = 1
    /\ ret.sent[1].to = "w2" /\ ret.sent[1].outcome = "failed"
    /\ \E j \in 1..Len(coordinator.nodes) :
          /\ coordinator.nodes[j].node_id = "w1"
          /\ coordinator.nodes[j].status = "disconnected"
    /\ DOMAIN coordinator.active_connections = {"w2"}
    /\ DOMAIN coordinator.active_tests = {}
    /\ uuids = 1

\* DistributedCoordinator.stop_test of an id that is not in active_tests
\* raises, sends nothing and changes nothing
RejectsUnknownTest ==
    (Called("stop_test")' /\ op'[3] \notin DOMAIN coordinator.active_tests) =>
       /\ CallCameBack' /\ ret'.outcome = "raised" /\ ret'.sent = <<>>
       /\ coordinator' = coordinator
       /\ calls' = calls
       /\ handlers' = handlers

\* TestCoordinator.stop_test of an id that is not in active_tests comes back
\* with an error and changes nothing
TestCoordinatorRejectsUnknownTest ==
    (Called("TestCoordinator.stop_test")' /\ op'[2] \notin DOMAIN test_coordinator.active_tests) =>
       /\ CallCameBack' /\ ret'.outcome = "raised"
       /\ test_coordinator' = test_coordinator
       /\ coordinator' = coordinator

\* C20: stopping a test id that is not active is rejected with an error and
\* without side effects (no message sent; active tests, nodes and
\* connections unchanged) by DistributedCoordinator.stop_test and by
\* TestCoordinator.stop_test.
C20_UnknownTestRejected == [][RejectsUnknownTest /\ TestCoordinatorRejectsUnknownTest]_vars

\* what was received first is a handshake in the wire format: data under
\* the coordinator's key that holds a message of type handshake
IsHandshake(first) ==
    /\ first # RecvTimeout
    /\ first[1] = ClusterKey
    /\ first[2][1] = "handshake"

\* the record of node_id in the node table
NodeRecord(self, node_id) ==
    self.nodes[CHOOSE j \in 1..Len(self.nodes) : self.nodes[j].node_id = node_id]

NodeIds(self) == { self.nodes[j].node_id : j \in 1..Len(self.nodes) }

\* the step that takes the first message of a connection: a handshake
\* stores the node's record with status READY and goes on to send the reply,
\* registering nothing yet; anything else closes the connection and leaves
\* the coordinator as it is
FirstMessageStep ==
    (Called("perform_handshake")' \/ Called("reject_handshake")') =>
       \E c \in Conns :
          /\ handlers[c] = <<"new">>
          /\ \A b \in Conns \ {c} : handlers'[b] = handlers[b]
          /\ IF IsHandshake(op'[2])
             THEN LET node_id == op'[2][2][2]
                      role == op'[2][2][3]
                  IN /\ Called("perform_handshake")'
                     /\ handlers'[c] = <<"handshaking", node_id>>
                     /\ node_id \in NodeIds(coordinator')
                     /\ NodeRecord(coordinator', node_id) =
                           NodeInfo(node_id, role, "ready", clock)
                     /\ NodeIds(coordinator') = NodeIds(coordinator) \cup {node_id}
                     /\ \A other \in NodeIds(coordinator) \ {node_id} :
                           NodeRecord(coordinator', other) = NodeRecord(coordinator, other)
                     /\ coordinator'.active_connections = coordinator.active_connections
             ELSE /\ Called("reject_handshake")'
                  /\ handlers'[c] = <<"closed">>
                  /\ coordinator' = coordinator

\* a record or a registration appears only through a handshake: a new
\* node_id in the node table only in the step that took its handshake, a
\* new or changed registration only for the connection whose handshake was
\* taken and answered
OnlyByHandshake ==
    /\ NodeIds(coordinator') # NodeIds(coordinator) => Called("perform_handshake")'
    /\ \A node_id \in DOMAIN coordinator'.active_connections :
          (\/ node_id \notin DOMAIN coordinator.active_connections
           \/ coordinator'.active_connections[node_id]
                 # coordinator.active_connections[node_id]) =>
             /\ Called("handshake_replied")'
             /\ handlers[coordinator'.active_connections[node_id]]
                   = <<"handshaking", node_id>>

\* after a handshake the reply is sent and the connection registered
RepliedAndRegistered ==
    Called("handshake_replied")' =>
       \E c \in Conns :
          /\ handlers[c][1] = "handshaking"
          /\ handlers'[c] = <<"serving", handlers[c][2]>>
          /\ coordinator'.active_connections =
                DictSet(coordinator.active_connections, handlers[c][2], c)
          /\ coordinator'.nodes = coordinator.nodes

\* after a handshake the connection is registered once the reply was sent;
\* when the send of the reply fails the connection is closed unregistered
\* and the record stored by the handshake stays as it is
RepliedThenRegistered ==
    Called("handshake_replied")' =>
       \E c \in Conns :
          /\ handlers[c][1] = "handshaking"
          /\ \A b \in Conns \ {c} : handlers'[b] = handlers[b]
          /\ coordinator'.nodes = coordinator.nodes
          /\ \/ /\ handlers'[c] = <<"serving", handlers[c][2]>>
                /\ coordinator'.active_connections =
                      DictSet(coordinator.active_connections, handlers[c][2], c)
             \/ /\ handlers'[c] = <<"closed">>
                /\ coordinator' = coordinator

\* C21 as stated: a record is created and a connection registered only when
\* the first message is a handshake in the wire format; then the record is
\* stored with status READY, the reply sent and the connection registered;
\* any other first message, undecryptable data or none in 10 s closes the
\* connection with the node and connection tables unchanged.
C21_HandshakeProtocol == [][FirstMessageStep /\ OnlyByHandshake /\ RepliedAndRegistered]_vars

\* C21: as above, but the connection is registered only when the reply has
\* been sent: when that send fails the connection is closed without a
\* registration, and the record stored with status READY stays in the table.
C21_HandshakeThenReply == [][FirstMessageStep /\ OnlyByHandshake /\ RepliedThenRegistered]_vars

\* C21 witness: the reply to w1's handshake could not be sent: the
\* connection is closed, w1 is in the node table as READY and has no
\* registration
C21_Witness ==
    /\ Called("handshake_replied")
    /\ handlers[1] = <<"closed">>
    /\ NodeIds(coordinator) = {"w1"}
    /\ NodeRecord(coordinator, "w1").status = "ready"
    /\ DOMAIN coordinator.active_connections = {}

\* the nodes whose last message is more than 30 s old at `now`
SilentNodes(self, now) ==
    { node_id \in NodeIds(self) : now - NodeRecord(self, node_id).last_heartbeat > 30 }

\* a pass of the monitor flags the silent nodes and no other
PassFlagsSilent ==
    Called("heartbeat_monitor")' =>
       /\ NodeIds(coordinator') = NodeIds(coordinator)
       /\ \A node_id \in NodeIds(coordinator) :
             IF node_id \in SilentNodes(coordinator, clock)
             THEN NodeRecord(coordinator', node_id).status = "disconnected"
             ELSE NodeRecord(coordinator', node_id) = NodeRecord(coordinator, node_id)

\* the step in which a pass of the monitor ends
PassEnds ==
    /\ Called("heartbeat_monitor")' \/ Called("monitor_closed")'
    /\ monitor'.pc = "sleeping"

\* the connected nodes the pass that ends in this step has flagged
FlaggedByPass ==
    IF Called("heartbeat_monitor")'
    THEN { node_id \in SilentNodes(coordinator, clock) :
             /\ NodeRecord(coordinator, node_id).status # "disconnected"
             /\ node_id \in DOMAIN coordinator.active_connections }
    ELSE monitor.registered

\* when a pass ends no connected node it has flagged is registered any more
PassUnregistersFlagged ==
    PassEnds => \A node_id \in FlaggedByPass :
                   node_id \notin DOMAIN coordinator'.active_connections

\* C22: a node that has sent no message for more than 30 s is flagged
\* Disconnected by the next pass of the heartbeat monitor, and when that pass
\* ends its connection has been closed and its registration removed; a node
\* whose last message is at most 30 s old is not flagged by the pass.
C22_TimeoutDisconnects == [][PassFlagsSilent /\ PassUnregistersFlagged]_vars

\* C23: a message received after the handshake that does not decrypt is
\* dropped: the sender's record (status, last_heartbeat), the cluster
\* metrics and the active tests stay as they are, no other node's record
\* changes, and the connection stays open and registered.
C23_UndecryptableDropped ==
    [][ (Called("handle_node_message")' /\ op'[3][1] # ClusterKey) =>
          /\ coordinator'.nodes = coordinator.nodes
          /\ coordinator'.metrics = coordinator.metrics
          /\ coordinator'.active_tests = coordinator.active_tests
          /\ coordinator'.active_connections = coordinator.active_connections
          /\ handlers' = handlers
          /\ \E c \in Conns : handlers'[c] = <<"serving", op'[2]>> ]_vars

\* C23 witness: w1, which reported metrics and was last heard of at clock 0,
\* sends metrics under a foreign key at clock 10: its report and its
\* last_heartbeat are the old ones and its connection is open
C23_Witness ==
    /\ Called("handle_node_message")
    /\ op[2] = "w1" /\ op[3] = encrypt_message(ForeignKey, <<"metrics", MetricsReport(6, 6, 300, 3)>>)
    /\ clock = 10
    /\ NodeRecord(coordinator, "w1").last_heartbeat = 0
    /\ NodeRecord(coordinator, "w1").status = "ready"
    /\ "w1" \in DOMAIN coordinator.metrics.node_metrics
    /\ coordinator.metrics.node_metrics["w1"] = MetricsReport(2, 1, 100, 1)
    /\ "w1" \in DOMAIN coordinator.active_connections

\* the node ids of the cluster scenarios
KnownNodeIds == <<"w1", "w2", "o1">>

\* `field` of the latest report of every node, 0 for a node without one
LatestOf(node_metrics, field) ==
    [j \in 1..Len(KnownNodeIds) |->
        IF KnownNodeIds[j] \in DOMAIN node_metrics
        THEN node_metrics[KnownNodeIds[j]][field]
        ELSE 0]

\* avg_response_time * total_requests of the latest report of every node
LatestWeighted(node_metrics) ==
    [j \in 1..Len(KnownNodeIds) |->
        IF KnownNodeIds[j] \in DOMAIN node_metrics
        THEN node_metrics[KnownNodeIds[j]].avg_response_time
                * node_metrics[KnownNodeIds[j]].total_requests
        ELSE 0]

\* a metrics report that decrypts was handled in this step
MetricsReported ==
    /\ Called("handle_node_message")'
    /\ op'[3][1] = ClusterKey
    /\ op'[3][2][1] = "metrics"

\* the report replaces the sender's earlier one and no other node's, and
\* the sums and the weighted average are those of the latest reports
LastWritePerNode ==
    MetricsReported =>
       LET before == coordinator.metrics.node_metrics
           latest == coordinator'.metrics.node_metrics
           aggregated == coordinator'.metrics.aggregated_metrics
           total == SumSeq(LatestOf(latest, "total_requests"))
       IN /\ DOMAIN latest = DOMAIN before \cup {op'[2]}
          /\ latest[op'[2]] = op'[3][2][2]
          /\ \A node_id \in DOMAIN before \ {op'[2]} : latest[node_id] = before[node_id]
          /\ aggregated.total_requests = total
          /\ aggregated.successful_requests = SumSeq(LatestOf(latest, "successful_requests"))
          /\ aggregated.avg_response_time =
                IF total > 0 THEN RDiv(R(SumSeq(LatestWeighted(latest))), R(total)) ELSE R(0)

\* the aggregate error rate as the fraction of the requests that failed
ErrorRateIs(scale) ==
    MetricsReported =>
       LET aggregated == coordinator'.metrics.aggregated_metrics
           total == aggregated.total_requests
       IN aggregated.error_rate =
             IF total > 0
             THEN RMul(R(scale), RDiv(R(total - aggregated.successful_requests), R(total)))
             ELSE R(0)

\* C24 as stated: after every metrics report the aggregate total_requests
\* and successful_requests are the sums over each node's most recent report,
\* avg_response_time is their request-count-weighted average, an older
\* report of a node no longer contributes, and error_rate equals
\* (total - successful)/total, 0 when total is 0.
C24_LastWriteAggregation == [][LastWritePerNode /\ ErrorRateIs(1)]_vars

\* C24: as above, with error_rate the percentage
\* 100 * (total - successful)/total, 0 when total is 0.
C24_LastWriteAggregationPercent == [][LastWritePerNode /\ ErrorRateIs(100)]_vars

\* C24 witness: w1's report of 6 requests has replaced an earlier one and
\* w2 has reported 2 requests, 1 of them failed: 8 requests, 7 successful,
\* average 250 ms, error rate 12.5
C24_Witness ==
    /\ Called("handle_node_message")
    /\ op[2] = "w1" /\ op[3] = encrypt_message(ClusterKey, <<"metrics", MetricsReport(6, 6, 300, 3)>>)
    /\ DOMAIN coordinator.metrics.node_metrics = {"w1", "w2"}
    /\ coordinator.metrics.node_metrics["w2"] = MetricsReport(2, 1, 100, 1)
    /\ coordinator.metrics.aggregated_metrics.total_requests = 8
    /\ coordinator.metrics.aggregated_metrics.successful_requests = 7
    /\ coordinator.metrics.aggregated_metrics.avg_response_time = R(250)
    /\ coordinator.metrics.aggregated_metrics.error_rate = <<25, 2>>

\* the reports the aggregate is to count after a report of `sender`: the
\* sender's and those of the nodes not flagged DISCONNECTED
ConnectedReports(self, sender) ==
    LET counted == { node_id \in DOMAIN self.metrics.node_metrics :
                        \/ node_id = sender
                        \/ NodeRecord(self, node_id).status # "disconnected" }
    IN [node_id \in counted |-> self.metrics.node_metrics[node_id]]

\* the aggregates recomputed by a report count the connected nodes only
DisconnectedExcluded ==
    MetricsReported =>
       LET reports == ConnectedReports(coordinator', op'[2])
           aggregated == coordinator'.metrics.aggregated_metrics
           total == SumSeq(LatestOf(reports, "total_requests"))
       IN /\ aggregated.total_requests = total
          /\ aggregated.successful_requests = SumSeq(LatestOf(reports, "successful_requests"))
          /\ aggregated.avg_response_time =
                IF total > 0 THEN RDiv(R(SumSeq(LatestWeighted(reports))), R(total)) ELSE R(0)
          /\ aggregated.current_rps = SumSeq(LatestOf(reports, "current_rps"))
          /\ aggregated.active_nodes = Cardinality(DOMAIN reports)

\* C25: once a worker is marked Disconnected, by heartbeat timeout or by
\* the close of its connection, every aggregate recomputed afterwards
\* (total_requests, successful_requests, avg_response_time, current_rps,
\* active_nodes) leaves out that node's last report.
C25_DisconnectedExcluded == [][DisconnectedExcluded]_vars

\* every record of the node table is still in it after the step, with a
\* last_heartbeat that is no earlier
HeartbeatsKept ==
    \A node_id \in NodeIds(coordinator) :
       /\ node_id \in NodeIds(coordinator')
       /\ NodeRecord(coordinator', node_id).last_heartbeat
             >= NodeRecord(coordinator, node_id).last_heartbeat

\* C26: under handshakes (a second one with the same node_id included),
\* heartbeat, metrics and error messages, disconnects and monitor passes,
\* with a clock that never goes back, the last_heartbeat stored for a
\* node_id never decreases, and a record once created is never deleted from
\* the node table, only flagged Disconnected.
C26_HeartbeatMonotone == [][HeartbeatsKept]_vars

\* C26 witness: w1, whose first connection is being served, has shaken hands
\* again on a second connection at a later clock reading: its one record
\* carries that reading
C26_Witness ==
    /\ Called("perform_handshake")
    /\ clock >= ClockStep
    /\ \E c1, c2 \in DOMAIN handlers :
          /\ handlers[c1] = <<"serving", "w1">>
          /\ handlers[c2] = <<"handshaking", "w1">>
    /\ Len(coordinator.nodes) = 1
    /\ NodeRecord(coordinator, "w1").last_heartbeat = clock

\* ------------------------------------------------- SLO monitor properties
\* the SLO registered under `name`
SLONamed(self, name) ==
    self.slos[CHOOSE i \in 1..Len(self.slos) : self.slos[i].name = name]

\* the positions in the history of `slo` of the samples no older than its
\* window at time `now`
SamplesInWindow(self, slo, now) ==
    { j \in 1..Len(history_of(self, slo.name)) :
         now - history_of(self, slo.name)[j].timestamp <= slo.window_seconds }

\* the sum of the samples of `slo` inside its window at time `now`
SumInWindow(self, slo, now) ==
    SumSeq([j \in 1..Len(history_of(self, slo.name)) |->
               IF j \in SamplesInWindow(self, slo, now)
               THEN history_of(self, slo.name)[j].value
               ELSE 0])

\* the violations of the SLO `name` among `violations`
ViolationsOf(violations, name) ==
    SelectSeq(violations, LAMBDA violation : violation.slo_name = name)

\* a check of an SLO with operator lt whose window holds at least 2 samples
\* with an average above the threshold returns a violation of that SLO and
\* appends what it returns to the accumulated violations
AboveLtThresholdReported ==
    \A i \in 1..Len(slo_monitor.slos) :
       LET slo == slo_monitor.slos[i]
           in_window == SamplesInWindow(slo_monitor', slo, clock)
       IN ( /\ op'[1] = "check_slos"
            /\ slo.operator = "lt"
            /\ Cardinality(in_window) >= 2
            /\ SumInWindow(slo_monitor', slo, clock) > slo.threshold * Cardinality(in_window) )
          => /\ Len(ViolationsOf(ret'.value, slo.name)) = 1
             /\ slo_monitor'.violations = slo_monitor.violations \o ret'.value

\* C27: check_slos reports a violation for an SLO with operator lt and
\* threshold T when the average of the at least 2 samples inside the SLO's
\* window is above T: with threshold 500 ms on response_time_p95 and two
\* consecutive in-window samples of 600 ms, the second check returns a
\* violation for that SLO and appends it to the accumulated violations.
C27_LtViolationReported == [][AboveLtThresholdReported]_vars

\* a check returns, and adds to the accumulated violations, no violation of
\* an SLO with fewer than 2 samples inside its window; no other step adds
\* a violation
FewSamplesNoViolation ==
    /\ op'[1] # "check_slos" => slo_monitor'.violations = slo_monitor.violations
    /\ op'[1] = "check_slos" =>
          /\ slo_monitor'.violations = slo_monitor.violations \o ret'.value
          /\ \A i \in 1..Len(slo_monitor.slos) :
                Cardinality(SamplesInWindow(slo_monitor', slo_monitor.slos[i], clock)) < 2
                   => ViolationsOf(ret'.value, slo_monitor.slos[i].name) = <<>>

\* C28: check_slos never produces a violation for an SLO that has fewer than
\* 2 samples inside its window at the time of the check, whatever the
\* operator, the threshold and the metric value: on the first check, or
\* when all earlier samples are older than window_seconds.
C28_FewSamplesNoViolation == [][FewSamplesNoViolation]_vars

\* C28 witness: the second check of min_rps (current_rps ge 2, window 10 s)
\* comes 30 s or more after the first, both at a rate of 3: the history
\* holds two samples, the window one, and no violation of min_rps is
\* returned or accumulated
C28_Witness ==
    /\ Called("check_slos")
    /\ HasSLO(slo_monitor.slos, "min_rps")
    /\ Len(history_of(slo_monitor, "min_rps")) = 2
    /\ history_of(slo_monitor, "min_rps")[1].value = 3
    /\ history_of(slo_monitor, "min_rps")[2].value = 3
    /\ Cardinality(SamplesInWindow(slo_monitor, SLONamed(slo_monitor, "min_rps"), clock)) = 1
    /\ ViolationsOf(ret.value, "min_rps") = <<>>
    /\ ViolationsOf(slo_monitor.violations, "min_rps") = <<>>

\* ---------------------------------------------- traffic generator properties
\* a constant schedule at a positive rate has run to a yield or to its end
ConstantScheduled ==
    /\ generator.pc \in {"suspended", "done"}
    /\ generator.kind = "ConstantTrafficGenerator"
    /\ generator.pattern.target_rps > 0

\* the dispatches so far of a constant schedule of rate R and duration D:
\* ids 0, 1, 2, ..., the first at start, each exactly 1/R after the one
\* before, all within [start, start + D], and R*D - 1 to R*D + 1 of them
\* when the schedule has ended (R and D are integers)
ConstantScheduleShape ==
    LET dispatches == Dispatches(generator)
        rate == generator.pattern.target_rps
        duration == generator.pattern.duration_seconds
    IN /\ \A j \in 1..Len(dispatches) :
             /\ dispatches[j].request_id = j - 1
             /\ j = 1 => dispatches[j].time = R(clock)
             /\ j > 1 => /\ RLe(dispatches[j - 1].time, dispatches[j].time)
                         /\ RSub(dispatches[j].time, dispatches[j - 1].time)
                               = RDiv(R(1), R(rate))
             /\ RLe(R(clock), dispatches[j].time)
             /\ RLe(dispatches[j].time, R(clock + duration))
       /\ generator.pc = "done" =>
             /\ Len(dispatches) >= rate * duration - 1
             /\ Len(dispatches) <= rate * duration + 1

ConfiguredRate(value, default) == IF value = Unset THEN default ELSE value[1]

\* a ramp schedule has run to a yield or to its end
RampScheduled ==
    /\ generator.pc \in {"suspended", "done"}
    /\ generator.kind = "RampTrafficGenerator"

\* every turn of the loop of a ramp uses the rate start + (end - start) * f
\* of the configured start and end rates at its elapsed fraction f,
\* dispatches when that rate is positive and otherwise moves on by 0.1 s
\* without dispatching; the rates follow the direction of the ramp
RampShape(start_rate, end_rate) ==
    LET turns == generator.iterations
        duration == generator.pattern.duration_seconds
    IN \A j \in 1..Len(turns) :
          LET f == RDiv(RSub(turns[j].time, R(clock)), R(duration))
              rate == RAdd(R(start_rate), RMul(R(end_rate - start_rate), f))
          IN /\ turns[j].current_rps = rate
             /\ turns[j].dispatched = RLt(R(0), rate)
             /\ j < Len(turns) =>
                   /\ turns[j + 1].time =
                         RAdd(turns[j].time,
                              IF turns[j].dispatched THEN RDiv(R(1), rate) ELSE <<1, 10>>)
                   /\ IF end_rate >= start_rate
                      THEN RLe(turns[j].current_rps, turns[j + 1].current_rps)
                      ELSE RLe(turns[j + 1].current_rps, turns[j].current_rps)

\* C30: for any Ramp pattern, up or down, whatever the configured start and
\* end rates, 0 included, the rate used at elapsed fraction f of the
\* duration is start_rate + (end_rate - start_rate) * f, so the annotated
\* rate is monotonic in the ramp's direction; when that rate is <= 0 no
\* dispatch is emitted and time advances by a fixed 0.1 s.
C30_RampRate ==
    RampScheduled =>
       RampShape(ConfiguredRate(generator.pattern.ramp_start_rps, 0),
                 ConfiguredRate(generator.pattern.ramp_end_rps,
                                generator.pattern.target_rps))

\* ---------------------------------------------- more throttle properties
\* C35: with emergency_stop_error_rate >= 10 (the default is 50) the error
\* rate sample of a recorded result is only ever 0 or 10, so under any
\* sequence of results, all failures included, the assessed mean never
\* exceeds the threshold: the throttle never enters EMERGENCY_STOP and never
\* sets current_rps to 0.
C35_NoEmergencyStop ==
    /\ \A i \in 1..Len(throttle.health_metrics_history) :
          throttle.health_metrics_history[i].error_rate \in {0, 10}
    /\ Len(throttle.health_metrics_history) > 0 =>
          RLe(avg_error_rate_of(throttle), throttle.config.emergency_stop_error_rate)
    /\ throttle.state # "emergency_stop"
    /\ ~throttle.emergency_stop_triggered
    /\ ~stopped
    /\ throttle.current_rps # R(0)

\* C35 witness: a failed request was recorded and the assessment it was due
\* for ran over a window of three failures, with the threshold at 10
C35_Witness ==
    /\ Called("record_request_result")
    /\ op[3] = 500
    /\ throttle.config.emergency_stop_error_rate = R(10)
    /\ throttle.last_health_check = clock
    /\ Len(throttle.health_metrics_history) = 3
    /\ \A i \in 1..3 : throttle.health_metrics_history[i].error_rate = 10
    /\ throttle.state # "emergency_stop"

\* the breaker changes its state only in record_request_result and in
\* should_make_request, and the ThrottleState such a step leaves is the one
\* the same call leaves on a throttle whose breaker is in the new state
\* already
BreakerLeavesThrottleState ==
    breaker'.state # breaker.state =>
       LET with_new_breaker == [throttle EXCEPT !.circuit_breaker = throttle'.circuit_breaker]
       IN \/ /\ Called("record_request_result")'
             /\ throttle'.state =
                   record_request_result(with_new_breaker, clock, op'[2], op'[3], op'[4]).state
          \/ /\ Called("should_make_request")'
             /\ throttle'.state = should_make_request(with_new_breaker, clock).self.state

\* C36: the throttle's state is never CIRCUIT_OPEN; the opening or closing
\* of the circuit breaker does not change ThrottleState, so the throttle can
\* be NORMAL while the breaker is Open, and the breaker's state changes only
\* through record_request_result and the can_execute check of
\* should_make_request.
C36_NeverCircuitOpen ==
    [][throttle'.state # "circuit_open" /\ BreakerLeavesThrottleState]_vars

\* C36 witness: the failure that opened the breaker was recorded and the
\* throttle is NORMAL
C36_Witness ==
    /\ RecordedFailure
    /\ breaker.state = "open"
    /\ breaker.failure_count = breaker.failure_threshold
    /\ throttle.state = "normal"

\* the run uses the Exponential, Linear or Fibonacci calculator with
\* min_rps >= 1
FixedStrategy ==
    /\ throttle.config.backoff_strategy \in {"exponential", "linear", "fibonacci"}
    /\ throttle.config.min_rps >= 1

\* a step that raises current_rps is a set_target_rps in NORMAL, a recorded
\* result assessed in RECOVERY, or the reset of an emergency stop
RisesOnlyByTargetOrRecovery ==
    RLt(throttle.current_rps, throttle'.current_rps) =>
       \/ Called("set_target_rps")' /\ throttle.state = "normal"
       \/ Called("record_request_result")' /\ throttle.state = "recovery"
       \/ Called("reset_emergency_stop")'

\* C37: with the Exponential, Linear or Fibonacci strategy and min_rps >= 1
\* a periodic health assessment in NORMAL never increases current_rps: the
\* rate stays reduced however healthy later results are, and rises only
\* through set_target_rps in NORMAL or through RECOVERY growth after a
\* back-off or an emergency reset.
C37_NormalNeverIncreases == [][FixedStrategy => RisesOnlyByTargetOrRecovery]_vars

\* the attempts and the base delays (seconds) a delay is asked for
DelayAttempts == 0..3

BaseDelays == { <<1, 2>>, R(1), R(3) }

\* C38: every back-off calculator caps its delay: for each strategy, every
\* attempt >= 0 and every base delay, calculate_delay returns at most the
\* configured maximum delay, the Adaptive calculator with fewer than 5
\* performance snapshots included.
C38_DelayCapped ==
    \A attempt \in DelayAttempts \cup {throttle.backoff_attempt}, base_delay \in BaseDelays :
       RLe(calculate_delay(throttle, attempt, base_delay), throttle.config.backoff_max_delay)


\* ------------------------------------------------- overlapping stop_test
\* coroutines that call start_distributed_test and stop_test on one loop
NumStoppers == 2

Stoppers == 1..NumStoppers

\* a master whose two workers connect, with NumStoppers callers
InitOverlap ==
    /\ clock = 1
    /\ throttle = NewThrottle(Config("exponential", 1, 2, 4, 5), 1)
    /\ inputs = [results |-> {}, targets |-> {},
                 handshakes |-> << <<"w1", "worker">>, <<"w2", "worker">> >>]
    /\ pc = [t \in Tasks |-> <<"ready">>]
    /\ op = <<"init">>
    /\ ret = None
    /\ can_exec = None
    /\ stopped = FALSE
    /\ last_permit = 0
    /\ coordinator = NewDistributedCoordinator
    /\ test_coordinator = NewTestCoordinator
    /\ handlers = [c \in DOMAIN inputs.handshakes |-> <<"new">>]
    /\ calls = [k \in Stoppers |-> NoCall]
    /\ uuids = 0
    /\ monitor = NoPass
    /\ MetricsIdle

\* the calls of the callers interleave at their awaits, while connections
\* are accepted and closed
NextOverlap ==
    \/ \E c \in Conns :
          PerformHandshake(c, encrypt_message(ClusterKey, HandshakeMessage(inputs.handshakes[c])))
    \/ \E c \in Conns, ok \in BOOLEAN : HandshakeReplied(c, ok)
    \/ \E c \in Conns : ConnectionClosed(c)
    \/ \E k \in Stoppers, total_rps \in TotalRates : StartDistributedTest(k, total_rps)
    \/ \E k \in Stoppers, ok \in BOOLEAN : StartCommandSent(k, ok)
    \/ \E k \in Stoppers, test_id \in TestIds : StopTest(k, test_id)
    \/ \E k \in Stoppers, ok \in BOOLEAN : StopCommandSent(k, ok)

SpecOverlap == InitOverlap /\ [][NextOverlap]_vars

\* a stop_test call has come back
StopCameBack ==
    /\ op[1] \in {"stop_test", "stop_command_sent"}
    /\ CallCameBack

\* C39: overlapping stop_test calls for one active test id are safe: a call
\* that does not complete normally is rejected with the 'test not found'
\* ValueError, never with another exception
C39_OverlappingStopSafe ==
    StopCameBack /\ ret.outcome = "raised" => ret.value = "ValueError"


\* the nodes whose handshake completed on a connection that is still open
OpenNodes == { handlers[c][2] : c \in { b \in Conns : handlers[b][1] = "serving" } }

\* C40: every node that completed a handshake on a connection that is still
\* open is registered in active_connections and its status is not
\* Disconnected, also after an earlier connection of the same node_id closed
C40_OpenNodeRegistered ==
    \A node_id \in OpenNodes :
       /\ node_id \in DOMAIN coordinator.active_connections
       /\ \A i \in DOMAIN coordinator.nodes :
             coordinator.nodes[i].node_id = node_id
                => coordinator.nodes[i].status # "disconnected"


\* ------------------------------------------------- more schedule properties
\* a field of the pattern as configured: its value, or the documented
\* default when it is not given
Configured(value, default) == IF value = Unset THEN default ELSE value[1]

BurstScheduled == generator.pc # "none" /\ generator.kind = "BurstTrafficGenerator"

\* elapsed lies in a window [k * interval, k * interval + 5); with a
\* negative interval every remainder is negative, so below 5
InBurstWindow(elapsed, interval) ==
    \/ interval < 0
    \/ \E k \in 0..(RFloor(elapsed) + 1) :
          /\ RLe(R(k * interval), elapsed)
          /\ RLt(elapsed, R(k * interval + 5))

\* the rate of a burst schedule at elapsed, from the configured values
BurstRate(pattern, elapsed) ==
    IF InBurstWindow(elapsed, Configured(pattern.burst_interval_seconds, 30))
    THEN pattern.target_rps * Configured(pattern.burst_multiplier, 3)
    ELSE pattern.target_rps

\* every turn is marked and rated by its window, and a positive rate sets
\* the spacing to the next dispatch
BurstShape ==
    LET g == generator
        turns == g.iterations
    IN \A i \in DOMAIN turns :
          LET elapsed == RSub(turns[i].time, g.start_time)
              rate == BurstRate(g.pattern, elapsed)
              spacing == IF i < Len(turns)
                         THEN RSub(turns[i + 1].time, turns[i].time)
                         ELSE g.request_interval
          IN /\ turns[i].is_burst
                   = InBurstWindow(elapsed, Configured(g.pattern.burst_interval_seconds, 30))
             /\ turns[i].current_rps = R(rate)
             /\ rate > 0 => spacing = Rat(1, rate)

\* C34: in a Burst schedule a dispatch at elapsed time e is scheduled at
\* rate base * multiplier exactly when e lies in a window
\* [k * burst_interval, k * burst_interval + 5), k = 0, 1, 2, ..., and at
\* the base rate otherwise, and the spacing to the next dispatch is
\* 1 / (rate in effect)
C34_BurstRate == BurstScheduled => BurstShape


Scheduled == generator.pc # "none"

\* C32: within one pattern schedule each emitted event has a scheduled_time
\* strictly greater than that of the event emitted before it, for every
\* pattern type
C32_StrictlyTimeOrdered ==
    Scheduled =>
       LET emitted == Dispatches(generator)
       IN \A i \in 1..(Len(emitted) - 1) : RLt(emitted[i].time, emitted[i + 1].time)


\* every event emitted so far is scheduled before start + duration
BoundedByDuration ==
    Scheduled =>
       \A i \in DOMAIN generator.iterations :
          generator.iterations[i].dispatched
             => /\ RLe(generator.start_time, generator.iterations[i].time)
                /\ RLt(generator.iterations[i].time, generator.end_time)

\* a resumed schedule has moved on: its time is later, or it is at a later
\* session of the same turn, or it is over
MovedOn ==
    generator.pc = "suspended" /\ generator' # generator
       => \/ RLt(generator.current_time, generator'.current_time)
          \/ generator'.cursor > generator.cursor
          \/ generator'.pc = "done"

\* C33: every pattern schedule is finite and bounded by the pattern
\* duration: each resumption of a generator brings it nearer to its end, for
\* any parameter values, and no event is emitted with a scheduled_time at or
\* after start + duration
C33_FiniteAndBounded == [][BoundedByDuration' /\ MovedOn]_vars


\* the test of the load test run has been stopped
TestStopped ==
    /\ engine.pc # "none"
    /\ test_coordinator.active_tests[engine.current_test_id].status = "stopped"

\* C31: after the test is stopped no scheduled-but-not-yet-dispatched event
\* of it is dispatched any more: the request callback of a task that was
\* created or sleeping when the test was stopped is never invoked
C31_StopCancelsPending ==
    [][TestStopped =>
          \A i \in DOMAIN engine.tasks :
             engine.tasks[i].pc \in {"created", "sleeping"}
                => engine'.tasks[i].pc # "in_flight"]_vars

============================================================================
